---- MODULE Spec2Model ----
(***************************************************************************)
(* The hop-routing engine of a SubstratumNode: the Hopper actor with its   *)
(* ConsumingService (hopper_lib/src/consuming_service.rs) and its          *)
(* RoutingService (hopper_lib/src/routing_service.rs).                     *)
(*                                                                         *)
(* Byte strings are modelled structurally.  A ciphertext remembers the key *)
(* it was encoded under and the plaintext it hides; only the engine that   *)
(* owns that key can decode it.  A CBOR serialization remembers the value  *)
(* it encodes and which type it encodes, so that bytes that are not a      *)
(* LiveCoresPackage fail to deserialize as one.                            *)
(***************************************************************************)
EXTENDS Naturals, Sequences, FiniteSets, Bags, TLC

VARIABLES
    is_bootstrap_node,  \* Hopper::new(cryptde, is_bootstrap_node)
    bound,              \* the Hopper has handled its BindMessage
    mailbox,            \* the Hopper actor's mailbox, FIFO
    to_proxy_server,    \* what the proxy-server sink has received, in order
    to_proxy_client,    \* what the proxy-client sink has received, in order
    to_neighborhood,    \* what the neighborhood sink has received, in order
    to_dispatcher,      \* what the dispatcher sink has received, in order
    log,                \* ERROR-level log lines, in order
    panicked,           \* the Hopper's thread has panicked
    dead,               \* the sinks whose mailbox no longer accepts a message
    sent,               \* number of messages the other actors have sent
    lastCall,           \* the message handled last, what handling it did, and
                        \* how much each sink and the log held before it
    discriminator,      \* the node's Discriminator: its framer and masqueraders
    construction,       \* whether Discriminator::new has run, and how it ended
    observed,           \* what the masqueraders were asked, and what the last
                        \* take_chunk took and returned
    shifting,           \* a route as Route::new built it, and the same route
                        \* after the shifts made on it so far
    listener,           \* MockNode: the listener thread of each port
    write_streams,      \* MockNode: the HashMap<SocketAddr, TcpStream> of the streams
    readers,            \* MockNode: the stream-reader thread of each peer
    streams,            \* MockNode: the TcpStream of each peer
    control_stream,     \* MockNode: the write half of the control stream, its
                        \* mutex and what was written to it
    stderr,             \* MockNode: the lines printed by eprintln!
    main,               \* MockNode: the main thread in the loop of initialize
    write_streams_lock, \* MockNode: the thread that holds the mutex of write_streams
    gossip_builder,     \* the GossipBuilder a test has put together so far
    gossip              \* what build made of it: a Gossip, or a panic

discVars == <<discriminator, construction, observed>>

mainVars == <<main, write_streams_lock>>

gossipVars == <<gossip_builder, gossip>>

mockVars == <<listener, write_streams, readers, streams, control_stream, stderr,
              main, write_streams_lock>>

vars == <<is_bootstrap_node, bound, mailbox, to_proxy_server, to_proxy_client,
          to_neighborhood, to_dispatcher, log, panicked, dead, sent, lastCall,
          discriminator, construction, observed, shifting,
          listener, write_streams, readers, streams, control_stream, stderr,
          main, write_streams_lock, gossip_builder, gossip>>

(***************************************************************************)
(* Bounds of the model.                                                    *)
(***************************************************************************)
\* Messages the other actors send to the Hopper in one behaviour of Spec.
MaxMsgs == 1

\* Messages the other actors send to the Hopper in one behaviour of SpecSeq.
MaxSeqMsgs == 2

(***************************************************************************)
(* Values.                                                                 *)
(***************************************************************************)
\* The public key of this node's CryptDE, cryptde.public_key().
KSelf == <<83, 69, 76, 70>>

\* Key::new(&[65, 65, 65]), the other peer of the tests.
KNext == <<65, 65, 65>>

Keys == {KSelf, KNext}

\* sub_lib::dispatcher::Component; Reserved stands for the values that
\* route_data_internally has no arm for.
Components == {"ProxyServer", "ProxyClient", "Hopper", "Neighborhood", "Reserved"}

None == [tag |-> "None"]

Some(v) == [tag |-> "Some", val |-> v]

Ok(v) == [ok |-> TRUE, val |-> v]

Err(e) == [ok |-> FALSE, err |-> e]

\* PlainData::new(bytes) for bytes that are no serialization.
Raw(s) == [tag |-> "raw", val |-> s]

Payloads == {Raw("abcd"), Raw("wxyz")}

\* SocketAddr::from_str("1.2.3.4:5678")
SocketAddr(ip, port) == [ip |-> ip, port |-> port]

\* SocketAddr::ip(): the address without the port.
IpOf(addr) == addr.ip

(***************************************************************************)
(* CryptoEngine (sub_lib::cryptde::CryptDE): asymmetric encode/decode.     *)
(***************************************************************************)
\* A Key of no bytes; no plaintext can be encoded under it.
EmptyKey == <<>>

\* cryptde.encode(key, plain): the ciphertext only the owner of key decodes.
encode(key, plain) ==
    IF key = EmptyKey THEN Err("EmptyKey")
    ELSE Ok([tag |-> "enc", key |-> key, plain |-> plain])

\* cryptde.decode(crypt) by the engine whose public key is self.
decode(self, crypt) ==
    IF crypt.tag = "enc" /\ crypt.key = self THEN Ok(crypt.plain)
    ELSE Err("InvalidKey")

\* The length L of the ciphertext of a hop, the same for every hop of a route.
HopLength == 64

\* Bytes that are no ciphertext of any key: what cryptde.random yields when it
\* fills a buffer of len bytes.
Garbage(n) == [tag |-> "garbage", id |-> n, len |-> HopLength]

GarbageHops == {Garbage(1), Garbage(2)}

(***************************************************************************)
(* Codec (serde_cbor): structural, self-describing serialization.         *)
(***************************************************************************)
\* serde_cbor::ser::to_vec(&live_package)
to_vec(lcp) == Ok([tag |-> "cbor", type |-> "LiveCoresPackage",
                   route |-> lcp.route, payload |-> lcp.payload])

\* serde_cbor::de::from_slice::<LiveCoresPackage>(bytes)
from_slice(bytes) ==
    IF bytes.tag = "cbor" /\ bytes.type = "LiveCoresPackage"
    THEN Ok([route |-> bytes.route, payload |-> bytes.payload])
    ELSE Err("invalid type")

(***************************************************************************)
(* Hop and Route (sub_lib::hop, sub_lib::route).                           *)
(***************************************************************************)
Hop(next_key, component) == [next_key |-> next_key, component |-> component]

\* The ciphertext form of a Hop: its serialization, encoded under the key of the
\* node that reads it.
EncryptedHop(key, hop) ==
    encode(key, [tag |-> "cbor", type |-> "Hop", next_key |-> hop.next_key,
                 component |-> hop.component]).val

RouteSegment(keys, component) == [keys |-> keys, component |-> component]

\* SegmentHops, but the segment's last hop is the one encoded under k_(n-1): it
\* names k_n and the component, and k_n gets no hop of its own.
SegmentHops_ends_early(seg, last) ==
    LET n == Len(seg.keys) - 1
    IN  [i \in 1..n |->
            IF i < n
            THEN EncryptedHop(seg.keys[i], Hop(seg.keys[i + 1], "Hopper"))
            ELSE EncryptedHop(seg.keys[n], Hop(seg.keys[n + 1], last.component))]

\* The hops of one segment [k0..kn]: hop i, encoded under k_i, names k_(i+1) and
\* Hopper; last is the plaintext of the hop encoded under k_n.
SegmentHops(seg, last) ==
    LET n == Len(seg.keys)
    IN  [i \in 1..n |->
            IF i < n
            THEN EncryptedHop(seg.keys[i], Hop(seg.keys[i + 1], "Hopper"))
            ELSE EncryptedHop(seg.keys[n], last)]

RECURSIVE RouteHops(_)
\* The hops of a list of segments: the final hop of segment m is the first hop
\* of segment m+1, and names segment m's component.
RouteHops(segs) ==
    IF Len(segs) = 1
    THEN LET seg == segs[1]
         IN  SegmentHops(seg, Hop(seg.keys[Len(seg.keys)], seg.component))
    ELSE LET seg == segs[1]
             nxt == segs[2]
         IN  SegmentHops(seg, Hop(nxt.keys[2], seg.component))
                 \o Tail(RouteHops(Tail(segs)))

\* Route::new(segments, cryptde)
RouteNew(segs) ==
    IF segs = <<>> \/ \E i \in 1..Len(segs) : Len(segs[i].keys) < 2
    THEN Err("InvalidSegments")
    ELSE Ok(RouteHops(segs))

\* Route::next_hop(cryptde): the leading hop, decoded, the route left as it is.
RouteNextHop(route, self) ==
    IF route = <<>> THEN Err("EmptyRoute")
    ELSE LET plain == decode(self, Head(route))
         IN  IF ~plain.ok THEN plain
             ELSE IF plain.val.tag = "cbor" /\ plain.val.type = "Hop"
                  THEN Ok([next_key |-> plain.val.next_key,
                           component |-> plain.val.component])
                  ELSE Err("invalid type")

\* The length of the ciphertext at one position of a route.
HopLen(crypt) == IF crypt.tag = "garbage" THEN crypt.len ELSE HopLength

\* Route::shift, but nothing is put in the place of the hop removed.
RouteShift_no_garbage(route, self, garbage) ==
    LET hop == RouteNextHop(route, self)
    IN  IF hop.ok
        THEN Ok([hop |-> hop.val, route |-> Tail(route)])
        ELSE hop

\* Route::shift(cryptde): the leading hop is decoded and removed, and a garbage
\* hop from the engine's random source, as long as the hop removed, is appended.
RouteShift(route, self, garbage) ==
    LET hop == RouteNextHop(route, self)
    IN  IF hop.ok
        THEN Ok([hop |-> hop.val,
                 route |-> Tail(route)
                            \o <<[garbage EXCEPT !.len = HopLen(Head(route))]>>])
        ELSE hop

(***************************************************************************)
(* LiveCoresPackage (hopper_lib/src/live_cores_package.rs).                *)
(***************************************************************************)
\* This node's CryptDE, identified by its public key.
cryptde == KSelf

\* LiveCoresPackage::new(route, payload)
LiveCoresPackage(route, payload) == [route |-> route, payload |-> payload]

\* IncipientCoresPackage::new(route, payload, &payload_destination_key)
IncipientCoresPackage(route, payload, key) ==
    [route |-> route, payload |-> payload, payload_destination_key |-> key]

\* LiveCoresPackage::from_incipient(incipient, cryptde): the payload is encoded
\* under the destination key and the route is shifted once by the originator;
\* the key of the shifted-off hop says where the package goes next.
from_incipient(incipient, garbage) ==
    LET payload == encode(incipient.payload_destination_key, incipient.payload)
        shifted == RouteShift(incipient.route, cryptde, garbage)
    IN  IF ~payload.ok THEN payload
        ELSE IF ~shifted.ok THEN shifted
        ELSE Ok([lcp |-> LiveCoresPackage(shifted.val.route, payload.val),
                 key |-> shifted.val.hop.next_key])

\* live_package.next_hop(cryptde): the leading hop, the package left as it is.
lcp_next_hop(live_package) == RouteNextHop(live_package.route, cryptde)

\* live_package.to_next_live(cryptde): the package one hop further on, and the
\* key of the node it goes to.
to_next_live(live_package, garbage) ==
    LET shifted == RouteShift(live_package.route, cryptde, garbage)
    IN  IF ~shifted.ok THEN shifted
        ELSE Ok([key |-> shifted.val.hop.next_key,
                 lcp |-> LiveCoresPackage(shifted.val.route, live_package.payload)])

\* live_package.to_expired(cryptde): the route as it is, the payload decoded.
to_expired(live_package) ==
    LET payload == decode(cryptde, live_package.payload)
    IN  IF ~payload.ok THEN payload
        ELSE Ok([remaining_route |-> live_package.route, payload |-> payload.val])

(***************************************************************************)
(* What handling one message does: the messages sent, in order, the ERROR  *)
(* lines logged, in order, and the panic that ended it, if one did.        *)
(***************************************************************************)
Effect(sends, logs, panic) == [sends |-> sends, logs |-> logs, panic |-> panic]

Return == Effect(<<>>, <<>>, None)

Panic(msg, arg) == Effect(<<>>, <<>>, Some([msg |-> msg, arg |-> arg]))

\* e1, and then e2 unless e1 panicked.
Then(e1, e2) ==
    IF e1.panic # None THEN e1
    ELSE Effect(e1.sends \o e2.sends, e1.logs \o e2.logs, e2.panic)

\* self.logger.error(...)
LogError(logger, text, arg) ==
    Effect(<<>>, <<[level |-> "ERROR", logger |-> logger, text |-> text, arg |-> arg]>>, None)

Sinks == {"proxy_server", "proxy_client", "neighborhood", "dispatcher", "hopper"}

\* try_send, but a message for a dead sink is dropped without a word.
try_send_drops(sink, msg, who) ==
    IF sink \in dead THEN Return
    ELSE Effect(<<[sink |-> sink, msg |-> msg]>>, <<>>, None)

\* recipient.try_send(msg).expect("<who> is dead")
try_send(sink, msg, who) ==
    IF sink \in dead THEN Panic("is dead", who)
    ELSE Effect(<<[sink |-> sink, msg |-> msg]>>, <<>>, None)

(***************************************************************************)
(* RoutingService (hopper_lib/src/routing_service.rs).                     *)
(***************************************************************************)
\* decrypt_and_deserialize_lcp, but a decryption failure does not end it: the
\* undecrypted bytes go on to deserialization.
decrypt_and_deserialize_lcp_goes_on(ibcd) ==
    LET decrypted_package == decode(cryptde, ibcd.data)
        bytes == IF decrypted_package.ok THEN decrypted_package.val ELSE ibcd.data
        failed == IF decrypted_package.ok THEN Return
                  ELSE LogError("RoutingService", "Couldn't decrypt CORES package: {:?}",
                                decrypted_package.err)
        live_package == from_slice(bytes)
    IN  IF ~live_package.ok
        THEN [res |-> Err("deserialize"),
              eff |-> Then(failed, LogError("RoutingService",
                                            "Couldn't deserialize CORES package: {}",
                                            live_package.err))]
        ELSE [res |-> live_package, eff |-> failed]

\* decrypt_and_deserialize_lcp, but a deserialization failure is not logged.
decrypt_and_deserialize_lcp_silent(ibcd) ==
    LET decrypted_package == decode(cryptde, ibcd.data)
    IN  IF ~decrypted_package.ok
        THEN [res |-> Err("decrypt"),
              eff |-> LogError("RoutingService", "Couldn't decrypt CORES package: {:?}",
                               decrypted_package.err)]
        ELSE LET live_package == from_slice(decrypted_package.val)
             IN  IF ~live_package.ok
                 THEN [res |-> Err("deserialize"), eff |-> Return]
                 ELSE [res |-> live_package, eff |-> Return]

\* decrypt_and_deserialize_lcp: the package, or the error logged for it.
decrypt_and_deserialize_lcp(ibcd) ==
    LET decrypted_package == decode(cryptde, ibcd.data)
    IN  IF ~decrypted_package.ok
        THEN [res |-> Err("decrypt"),
              eff |-> LogError("RoutingService", "Couldn't decrypt CORES package: {:?}",
                               decrypted_package.err)]
        ELSE LET live_package == from_slice(decrypted_package.val)
             IN  IF ~live_package.ok
                 THEN [res |-> Err("deserialize"),
                       eff |-> LogError("RoutingService",
                                        "Couldn't deserialize CORES package: {}",
                                        live_package.err)]
                 ELSE [res |-> live_package, eff |-> Return]

\* should_route_data, but is_bootstrap_node is never looked at.
should_route_data_always(component) == [route |-> TRUE, eff |-> Return]

\* should_route_data, but a bootstrap node makes no exception for Neighborhood.
should_route_data_no_exception(component) ==
    IF is_bootstrap_node
    THEN [route |-> FALSE,
          eff |-> LogError("RoutingService",
                           "Request for Bootstrap Node to route data to {:?}: rejected",
                           component)]
    ELSE [route |-> TRUE, eff |-> Return]

\* should_route_data, but a bootstrap node lets Hopper hops pass as it lets
\* Neighborhood hops pass.
should_route_data_relays_hopper(component) ==
    IF component \in {"Neighborhood", "Hopper"} THEN [route |-> TRUE, eff |-> Return]
    ELSE IF is_bootstrap_node
    THEN [route |-> FALSE,
          eff |-> LogError("RoutingService",
                           "Request for Bootstrap Node to route data to {:?}: rejected", component)]
    ELSE [route |-> TRUE, eff |-> Return]

\* should_route_data, but only the Hopper component is refused on a bootstrap
\* node.
should_route_data_proxies_pass(component) ==
    IF component # "Hopper" THEN [route |-> TRUE, eff |-> Return]
    ELSE IF is_bootstrap_node
    THEN [route |-> FALSE,
          eff |-> LogError("RoutingService",
                           "Request for Bootstrap Node to route data to {:?}: rejected", component)]
    ELSE [route |-> TRUE, eff |-> Return]

\* should_route_data: the decision, and the rejection logged for a refusal.
should_route_data(component) ==
    IF component = "Neighborhood" THEN [route |-> TRUE, eff |-> Return]
    ELSE IF is_bootstrap_node
    THEN [route |-> FALSE,
          eff |-> LogError("RoutingService",
                           "Request for Bootstrap Node to route data to {:?}: rejected", component)]
    ELSE [route |-> TRUE, eff |-> Return]

\* handle_endpoint: the expired package goes to the component's sink.
handle_endpoint(component, recipient, live_package) ==
    LET expired_package == to_expired(live_package)
    IN  IF ~expired_package.ok THEN Panic("Decode error", expired_package.err)
        ELSE try_send(recipient, expired_package.val, component)

\* handle_ip_endpoint, but the sender's IP is the zero-hop placeholder's.
handle_ip_endpoint_placeholder(component, recipient, live_package, sender_ip) ==
    LET expired_package == to_expired(live_package)
    IN  IF ~expired_package.ok THEN Panic("Decode error", expired_package.err)
        ELSE try_send(recipient,
                      [expired_cores_package |-> expired_package.val,
                       sender_ip |-> "1.2.3.4"],
                      component)

\* handle_ip_endpoint: the expired package and the sender's IP go to the sink.
handle_ip_endpoint(component, recipient, live_package, sender_ip) ==
    LET expired_package == to_expired(live_package)
    IN  IF ~expired_package.ok THEN Panic("Decode error", expired_package.err)
        ELSE try_send(recipient,
                      [expired_cores_package |-> expired_package.val,
                       sender_ip |-> sender_ip],
                      component)

\* route_data_internally, but the two proxy sinks are taken for each other.
route_data_internally_swapped(component, sender_ip, live_package) ==
    CASE component = "ProxyServer" ->
            handle_endpoint(component, "proxy_client", live_package)
      [] component = "ProxyClient" ->
            handle_endpoint(component, "proxy_server", live_package)
      [] component = "Neighborhood" ->
            handle_ip_endpoint(component, "neighborhood", live_package, sender_ip)
      [] OTHER -> Panic("not yet implemented", component)

\* route_data_internally
route_data_internally(component, sender_ip, live_package) ==
    CASE component = "ProxyServer" ->
            handle_endpoint(component, "proxy_server", live_package)
      [] component = "ProxyClient" ->
            handle_endpoint(component, "proxy_client", live_package)
      [] component = "Neighborhood" ->
            handle_ip_endpoint(component, "neighborhood", live_package, sender_ip)
      [] OTHER -> Panic("not yet implemented", component)

\* to_transmit_data_msg, but the service numbers the messages it relays: the
\* sequence number is the count of those it has sent to the dispatcher.
to_transmit_data_msg_numbered(live_package, last_data, garbage) ==
    LET next == to_next_live(live_package, garbage)
    IN  IF ~next.ok THEN [panic |-> Some([msg |-> "not yet implemented", arg |-> next.err])]
        ELSE
        LET next_key == next.val.key
            next_live_package_ser == to_vec(next.val.lcp)
            next_live_package_enc == encode(next_key, next_live_package_ser.val)
        IN  IF ~next_live_package_enc.ok
            THEN [panic |-> Some([msg |-> "not yet implemented",
                                  arg |-> next_live_package_enc.err])]
            ELSE [panic |-> None,
                  msg |-> [endpoint |-> [tag |-> "Key", key |-> next_key],
                           last_data |-> last_data,
                           data |-> next_live_package_enc.val,
                           sequence_number |-> Some(Len(to_dispatcher))]]

\* to_transmit_data_msg: the TransmitDataMsg for the next node, or the panic of
\* one of its unimplemented error arms.
to_transmit_data_msg(live_package, last_data, garbage) ==
    LET next == to_next_live(live_package, garbage)
    IN  IF ~next.ok THEN [panic |-> Some([msg |-> "not yet implemented", arg |-> next.err])]
        ELSE
        LET next_key == next.val.key
            next_live_package_ser == to_vec(next.val.lcp)
        IN  IF ~next_live_package_ser.ok
            THEN [panic |-> Some([msg |-> "not yet implemented",
                                  arg |-> next_live_package_ser.err])]
            ELSE
            LET next_live_package_enc == encode(next_key, next_live_package_ser.val)
            IN  IF ~next_live_package_enc.ok
                THEN [panic |-> Some([msg |-> "not yet implemented",
                                      arg |-> next_live_package_enc.err])]
                ELSE [panic |-> None,
                      msg |-> [endpoint |-> [tag |-> "Key", key |-> next_key],
                               last_data |-> last_data,
                               data |-> next_live_package_enc.val,
                               sequence_number |-> None]]

\* route_data_externally, but last_data is not passed on.
route_data_externally_not_last(live_package, last_data, garbage) ==
    LET transmit_msg == to_transmit_data_msg(live_package, FALSE, garbage)
    IN  IF transmit_msg.panic # None
        THEN Effect(<<>>, <<>>, transmit_msg.panic)
        ELSE try_send("dispatcher", transmit_msg.msg, "Dispatcher")

\* route_data_externally, but a failure to make the TransmitDataMsg is logged and
\* the package dropped.
route_data_externally_logs_and_drops(live_package, last_data, garbage) ==
    LET transmit_msg == to_transmit_data_msg(live_package, last_data, garbage)
    IN  IF transmit_msg.panic # None
        THEN LogError("RoutingService", "Couldn't relay CORES package: {:?}",
                      transmit_msg.panic.val.arg)
        ELSE try_send("dispatcher", transmit_msg.msg, "Dispatcher")

\* route_data_externally
route_data_externally(live_package, last_data, garbage) ==
    LET transmit_msg == to_transmit_data_msg(live_package, last_data, garbage)
    IN  IF transmit_msg.panic # None
        THEN Effect(<<>>, <<>>, transmit_msg.panic)
        ELSE try_send("dispatcher", transmit_msg.msg, "Dispatcher")

\* route_data, but a Hopper hop that names this node's own key stays inside.
route_data_self_stays(sender_ip, next_hop, live_package, last_data, garbage) ==
    IF next_hop.component = "Hopper" /\ next_hop.next_key # cryptde
    THEN route_data_externally(live_package, last_data, garbage)
    ELSE route_data_internally(next_hop.component, sender_ip, live_package)

\* route_data
route_data(sender_ip, next_hop, live_package, last_data, garbage) ==
    IF next_hop.component = "Hopper"
    THEN route_data_externally(live_package, last_data, garbage)
    ELSE route_data_internally(next_hop.component, sender_ip, live_package)

\* route, but the sender is told apart by its whole address, port included.
route_sender_with_port(ibcd, garbage) ==
    LET sender_ip == ibcd.peer_addr
        last_data == ibcd.last_data
        lcp == decrypt_and_deserialize_lcp(ibcd)
    IN  IF ~lcp.res.ok THEN lcp.eff
        ELSE
        LET live_package == lcp.res.val
            next_hop == lcp_next_hop(live_package)
        IN  IF ~next_hop.ok THEN Panic("next_hop", next_hop.err)
            ELSE
            LET decision == should_route_data(next_hop.val.component)
            IN  IF decision.route
                THEN Then(decision.eff,
                          route_data(sender_ip, next_hop.val, live_package,
                                     last_data, garbage))
                ELSE decision.eff

\* RoutingService::route
route(ibcd, garbage) ==
    LET sender_ip == IpOf(ibcd.peer_addr)
        last_data == ibcd.last_data
        lcp == decrypt_and_deserialize_lcp(ibcd)
    IN  IF ~lcp.res.ok THEN lcp.eff
        ELSE
        LET live_package == lcp.res.val
            next_hop == lcp_next_hop(live_package)
        IN  IF ~next_hop.ok THEN Panic("next_hop", next_hop.err)
            ELSE
            LET decision == should_route_data(next_hop.val.component)
            IN  IF decision.route
                THEN Then(decision.eff,
                          route_data(sender_ip, next_hop.val, live_package,
                                     last_data, garbage))
                ELSE decision.eff

(***************************************************************************)
(* ConsumingService (hopper_lib/src/consuming_service.rs).                 *)
(***************************************************************************)
\* serialize_and_encrypt_lcp, but a failure is not logged.
serialize_and_encrypt_lcp_silent(live_package, next_node_key) ==
    LET serialized_package == to_vec(live_package)
    IN  IF ~serialized_package.ok
        THEN [res |-> Err("serialize"), eff |-> Return]
        ELSE LET encrypted_package == encode(next_node_key, serialized_package.val)
             IN  IF ~encrypted_package.ok
                 THEN [res |-> Err("encode"), eff |-> Return]
                 ELSE [res |-> encrypted_package, eff |-> Return]

\* serialize_and_encrypt_lcp: the encrypted package, or the error logged.
serialize_and_encrypt_lcp(live_package, next_node_key) ==
    LET serialized_package == to_vec(live_package)
    IN  IF ~serialized_package.ok
        THEN [res |-> Err("serialize"),
              eff |-> LogError("ConsumingService", "Couldn't serialize package: {}",
                               serialized_package.err)]
        ELSE LET encrypted_package == encode(next_node_key, serialized_package.val)
             IN  IF ~encrypted_package.ok
                 THEN [res |-> Err("encode"),
                       eff |-> LogError("ConsumingService", "Couldn't encode package: {:?}",
                                        encrypted_package.err)]
                 ELSE [res |-> encrypted_package, eff |-> Return]

\* launch_zero_hop_lcp, but the data is not marked clandestine.
launch_zero_hop_lcp_not_clandestine(encrypted_package) ==
    LET inbound_client_data ==
            [peer_addr |-> SocketAddr("1.2.3.4", 5678),
             reception_port |-> None,
             last_data |-> FALSE,
             sequence_number |-> None,
             is_clandestine |-> FALSE,
             data |-> encrypted_package]
    IN  try_send("hopper", inbound_client_data, "Hopper")

\* launch_zero_hop_lcp: the package comes back to this Hopper as inbound data.
launch_zero_hop_lcp(encrypted_package) ==
    LET inbound_client_data ==
            [peer_addr |-> SocketAddr("1.2.3.4", 5678),
             reception_port |-> None,
             last_data |-> FALSE,
             sequence_number |-> None,
             is_clandestine |-> TRUE,
             data |-> encrypted_package]
    IN  try_send("hopper", inbound_client_data, "Hopper")

\* launch_conventional_lcp, but the endpoint is this node's own key.
launch_conventional_lcp_to_self(encrypted_package, next_node_key) ==
    LET transmit_msg ==
            [endpoint |-> [tag |-> "Key", key |-> cryptde],
             last_data |-> FALSE,
             data |-> encrypted_package,
             sequence_number |-> None]
    IN  try_send("dispatcher", transmit_msg, "Dispatcher")

\* launch_conventional_lcp: the package goes to the dispatcher for the next node.
launch_conventional_lcp(encrypted_package, next_node_key) ==
    LET transmit_msg ==
            [endpoint |-> [tag |-> "Key", key |-> next_node_key],
             last_data |-> FALSE,
             data |-> encrypted_package,
             sequence_number |-> None]
    IN  try_send("dispatcher", transmit_msg, "Dispatcher")

\* launch_lcp, but a package for this node goes to the dispatcher as well.
launch_lcp_both(encrypted_package, next_node_key) ==
    IF cryptde = next_node_key
    THEN Then(launch_zero_hop_lcp(encrypted_package),
              launch_conventional_lcp(encrypted_package, next_node_key))
    ELSE launch_conventional_lcp(encrypted_package, next_node_key)

\* launch_lcp
launch_lcp(encrypted_package, next_node_key) ==
    IF cryptde = next_node_key
    THEN launch_zero_hop_lcp(encrypted_package)
    ELSE launch_conventional_lcp(encrypted_package, next_node_key)

\* ConsumingService::consume
consume(incipient_cores_package, garbage) ==
    LET live == from_incipient(incipient_cores_package, garbage)
    IN  IF ~live.ok THEN Panic("from_incipient", live.err)
        ELSE
        LET live_package == live.val.lcp
            next_node_key == live.val.key
            encrypted_package == serialize_and_encrypt_lcp(live_package, next_node_key)
        IN  IF ~encrypted_package.res.ok THEN encrypted_package.eff
            ELSE launch_lcp(encrypted_package.res.val, next_node_key)

(***************************************************************************)
(* What the other actors send to the Hopper.                               *)
(***************************************************************************)
\* The key lists of the routes: this node to itself (zero-hop), and this node
\* to the other peer.
SegmentKeys == {<<KSelf, KSelf>>, <<KSelf, KNext>>}

Last(seq) == seq[Len(seq)]

\* The routes Route::new builds from one segment.
Routes ==
    {RouteNew(<<RouteSegment(keys, c)>>).val : keys \in SegmentKeys, c \in Components}

\* A route whose leading hop names a key under which nothing can be encoded.
UnencodableRoute == <<EncryptedHop(KSelf, Hop(EmptyKey, "Hopper")), Garbage(1)>>

\* What a local component hands over: a route from this node, and a payload
\* for the node the route ends at; and a package whose route leads nowhere.
IncipientPackages ==
    {IncipientCoresPackage(RouteNew(<<RouteSegment(keys, c)>>).val, p, Last(keys)) :
        keys \in SegmentKeys, c \in Components, p \in Payloads}
    \cup
    {IncipientCoresPackage(UnencodableRoute, p, KNext) : p \in Payloads}

\* The packages that reach this node: a route whose leading hop is this node's,
\* either as built or already shifted once, and a payload for the route's end.
LivePackages ==
    {LiveCoresPackage(RouteNew(<<RouteSegment(keys, c)>>).val,
                      encode(Last(keys), p).val) :
        keys \in SegmentKeys, c \in Components, p \in Payloads}
    \cup
    {LiveCoresPackage(
        RouteShift(RouteNew(<<RouteSegment(<<KSelf, KSelf>>, c)>>).val,
                   KSelf, Garbage(1)).val.route,
        encode(KSelf, p).val) :
        c \in Components, p \in Payloads}

\* The bytes of a clandestine frame for this node.
Frame(lcp) == encode(KSelf, to_vec(lcp).val).val

\* Packages that reach this node and cannot go on: their leading hop names
\* Hopper and a key under which nothing can be encoded.
UnrelayablePackages ==
    {LiveCoresPackage(UnencodableRoute, encode(KNext, p).val) : p \in Payloads}

\* Bytes this node cannot decrypt: a frame for another node, and noise.
UndecryptableData ==
    {encode(KNext, to_vec(LiveCoresPackage(<<Garbage(1)>>, Garbage(2))).val).val,
     Garbage(1)}

\* Bytes this node decrypts to something that is no LiveCoresPackage.
UndeserializableData ==
    {encode(KSelf, Raw("abcd")).val,
     encode(KSelf, [tag |-> "cbor", type |-> "Hop", next_key |-> KSelf,
                    component |-> "Hopper"]).val}

InboundData ==
    {Frame(lcp) : lcp \in LivePackages} \cup UndecryptableData \cup UndeserializableData

\* Another port of the peer at 1.2.3.4, and a port of this node the data of a
\* peer came in at.
OtherPort == 9999

ReceptionPort == 8080

\* The packages that come from the other port: those of one payload.
PortedPackages == {lcp \in LivePackages : lcp.payload.plain = Raw("abcd")}

PeerAddrs == {SocketAddr("1.2.3.4", 5678), SocketAddr("5.6.7.8", 1234)}

\* The InboundClientData the dispatcher (or this node's ConsumingService) sends:
\* without a sequence number, and clandestine frames with the number of their
\* chunk.
InboundClientDatas ==
    {[peer_addr |-> a, reception_port |-> None, last_data |-> l,
      sequence_number |-> None, is_clandestine |-> c, data |-> d] :
        a \in PeerAddrs, l \in BOOLEAN, c \in BOOLEAN, d \in InboundData}
    \cup
    {[peer_addr |-> SocketAddr("1.2.3.4", 5678), reception_port |-> None,
      last_data |-> l, sequence_number |-> Some(0), is_clandestine |-> TRUE,
      data |-> Frame(lcp)] :
        l \in BOOLEAN, lcp \in LivePackages}
    \cup
    {[peer_addr |-> SocketAddr("1.2.3.4", 5678), reception_port |-> None,
      last_data |-> FALSE, sequence_number |-> None, is_clandestine |-> TRUE,
      data |-> Frame(lcp)] :
        lcp \in UnrelayablePackages}
    \cup
    {[peer_addr |-> SocketAddr("1.2.3.4", OtherPort), reception_port |-> Some(ReceptionPort),
      last_data |-> FALSE, sequence_number |-> None, is_clandestine |-> FALSE,
      data |-> d] :
        d \in {Frame(lcp) : lcp \in PortedPackages} \cup UndecryptableData}

(***************************************************************************)
(* MockNode (multinode_integration_tests/src/main.rs): its ports and the   *)
(* threads' state at start.                                                *)
(***************************************************************************)
\* accept() errors on one port in one behaviour.
MaxAcceptErrors == 2

\* Transient errors of stream.write within one write_with_retry.
MaxRetries == 2

\* Calls of stream.read by one stream reader in one behaviour.
MaxReads == 1

\* self.node_addr().ports()
Ports == {1024}

\* A listener thread about to call listener.accept().
ListenerStarted == [pc |-> "accept", results |-> <<>>]

\* No stream reader has been started for the peer.
NoReader == [pc |-> "none", reads |-> 0, buf |-> None, writes |-> <<>>,
             returned |-> None]

\* HashMap::new()
EmptyTable == [p \in {} |-> None]

\* The main thread as it enters the loop of initialize: the framer is new,
\* nothing has been read from the control stream and no hunk handled.
MainStarted == [pc |-> "take", framer |-> <<>>, reads |-> 0, framed |-> 0,
                data_hunk |-> None, attempts |-> 0, handled |-> <<>>,
                returned |-> None]

\* GossipBuilder::new()
GossipBuilder_new == [node_info |-> <<>>, connection_pairs |-> <<>>]

(***************************************************************************)
(* The Hopper actor (hopper_lib/src/hopper.rs).                            *)
(***************************************************************************)
Init ==
    /\ is_bootstrap_node \in BOOLEAN
    /\ bound = FALSE
    /\ mailbox = <<>>
    /\ to_proxy_server = <<>>
    /\ to_proxy_client = <<>>
    /\ to_neighborhood = <<>>
    /\ to_dispatcher = <<>>
    /\ log = <<>>
    /\ panicked = FALSE
    /\ dead = {}
    /\ sent = 0
    /\ lastCall = [op |-> "none"]
    /\ discriminator = None
    /\ construction = "none"
    /\ observed = [calls |-> <<>>, takes |-> 0, added |-> 0, frame |-> None,
                   result |-> None]
    /\ shifting = None
    /\ listener = [port \in Ports |-> ListenerStarted]
    /\ write_streams = EmptyTable
    /\ readers = [p \in PeerAddrs |-> NoReader]
    /\ streams = [p \in PeerAddrs |-> "none"]
    /\ control_stream = [lock |-> None, written |-> <<>>, shutdown |-> FALSE]
    /\ stderr = EmptyBag
    /\ main = MainStarted
    /\ write_streams_lock = None
    /\ gossip_builder = GossipBuilder_new
    /\ gossip = None

BindMessage == [kind |-> "BindMessage"]

\* The messages of a sequence of sends that go to one sink.
SentTo(sends, sink) ==
    LET mine == SelectSeq(sends, LAMBDA s : s.sink = sink)
    IN  [i \in 1..Len(mine) |-> mine[i].msg]

\* The BindMessage has been sent to the Hopper; the peer actors get the
\* Hopper's address with theirs, so none of them sends before that.
BindSent == bound \/ \E i \in 1..Len(mailbox) : mailbox[i].kind = "BindMessage"

\* subject_addr.try_send(BindMessage { peer_actors })
SendBind ==
    /\ ~panicked
    /\ ~BindSent
    /\ mailbox' = Append(mailbox, BindMessage)
    /\ UNCHANGED <<is_bootstrap_node, bound, to_proxy_server, to_proxy_client,
                   to_neighborhood, to_dispatcher, log, panicked, dead, sent, lastCall>>
    /\ UNCHANGED <<discVars, shifting, mockVars, gossipVars>>

\* A local component sends one of the packages of S to the Hopper.
SendIncipientOf(S, max) ==
    /\ ~panicked
    /\ BindSent
    /\ sent < max
    /\ \E icp \in S :
        mailbox' = Append(mailbox, [kind |-> "IncipientCoresPackage", body |-> icp])
    /\ sent' = sent + 1
    /\ UNCHANGED <<is_bootstrap_node, bound, to_proxy_server, to_proxy_client,
                   to_neighborhood, to_dispatcher, log, panicked, dead, lastCall>>
    /\ UNCHANGED <<discVars, shifting, mockVars, gossipVars>>

\* The dispatcher sends one of the InboundClientData of S to the Hopper.
SendInboundOf(S, max) ==
    /\ ~panicked
    /\ BindSent
    /\ sent < max
    /\ \E ibcd \in S :
        mailbox' = Append(mailbox, [kind |-> "InboundClientData", body |-> ibcd])
    /\ sent' = sent + 1
    /\ UNCHANGED <<is_bootstrap_node, bound, to_proxy_server, to_proxy_client,
                   to_neighborhood, to_dispatcher, log, panicked, dead, lastCall>>
    /\ UNCHANGED <<discVars, shifting, mockVars, gossipVars>>

SendIncipient == SendIncipientOf(IncipientPackages, MaxMsgs)

SendInbound == SendInboundOf(InboundClientDatas, MaxMsgs)

\* Handled, but what a sink receives is put in front of what it holds.
Handled_in_front(op, eff) ==
    /\ mailbox' = Tail(mailbox) \o
                  [i \in 1..Len(SentTo(eff.sends, "hopper")) |->
                      [kind |-> "InboundClientData", body |-> SentTo(eff.sends, "hopper")[i]]]
    /\ to_proxy_server' = SentTo(eff.sends, "proxy_server") \o to_proxy_server
    /\ to_proxy_client' = SentTo(eff.sends, "proxy_client") \o to_proxy_client
    /\ to_neighborhood' = SentTo(eff.sends, "neighborhood") \o to_neighborhood
    /\ to_dispatcher' = SentTo(eff.sends, "dispatcher") \o to_dispatcher
    /\ log' = log \o eff.logs
    /\ panicked' = (eff.panic # None)
    /\ lastCall' = [op |-> op, msg |-> Head(mailbox).body, eff |-> eff,
                    before |-> [proxy_server |-> Len(to_proxy_server),
                                proxy_client |-> Len(to_proxy_client),
                                neighborhood |-> Len(to_neighborhood),
                                dispatcher |-> Len(to_dispatcher),
                                log |-> Len(log),
                                dead |-> dead]]

\* What handling the mailbox's first message with effect eff leaves behind.
Handled(op, eff) ==
    /\ mailbox' = Tail(mailbox) \o
                  [i \in 1..Len(SentTo(eff.sends, "hopper")) |->
                      [kind |-> "InboundClientData", body |-> SentTo(eff.sends, "hopper")[i]]]
    /\ to_proxy_server' = to_proxy_server \o SentTo(eff.sends, "proxy_server")
    /\ to_proxy_client' = to_proxy_client \o SentTo(eff.sends, "proxy_client")
    /\ to_neighborhood' = to_neighborhood \o SentTo(eff.sends, "neighborhood")
    /\ to_dispatcher' = to_dispatcher \o SentTo(eff.sends, "dispatcher")
    /\ log' = log \o eff.logs
    /\ panicked' = (eff.panic # None)
    /\ lastCall' = [op |-> op, msg |-> Head(mailbox).body, eff |-> eff,
                    before |-> [proxy_server |-> Len(to_proxy_server),
                                proxy_client |-> Len(to_proxy_client),
                                neighborhood |-> Len(to_neighborhood),
                                dispatcher |-> Len(to_dispatcher),
                                log |-> Len(log),
                                dead |-> dead]]

\* Handler<BindMessage>: the two services are built.
HandleBind ==
    /\ ~panicked
    /\ mailbox # <<>>
    /\ Head(mailbox).kind = "BindMessage"
    /\ bound' = TRUE
    /\ mailbox' = Tail(mailbox)
    /\ lastCall' = [op |-> "bind"]
    /\ UNCHANGED <<is_bootstrap_node, to_proxy_server, to_proxy_client,
                   to_neighborhood, to_dispatcher, log, panicked, dead, sent>>
    /\ UNCHANGED <<discVars, shifting, mockVars, gossipVars>>

\* Handler<IncipientCoresPackage>: consuming_service.consume(msg)
HandleIncipient ==
    /\ ~panicked
    /\ mailbox # <<>>
    /\ Head(mailbox).kind = "IncipientCoresPackage"
    /\ IF bound
       THEN \E garbage \in GarbageHops :
                Handled("consume", consume(Head(mailbox).body, garbage))
       ELSE Handled("unbound", Panic("Hopper unbound", "ConsumingService"))
    /\ UNCHANGED <<is_bootstrap_node, bound, dead, sent>>
    /\ UNCHANGED <<discVars, shifting, mockVars, gossipVars>>

\* Handler<InboundClientData>: routing_service.route(msg)
HandleInbound ==
    /\ ~panicked
    /\ mailbox # <<>>
    /\ Head(mailbox).kind = "InboundClientData"
    /\ IF bound
       THEN \E garbage \in GarbageHops :
                Handled("route", route(Head(mailbox).body, garbage))
       ELSE Handled("unbound", Panic("Hopper unbound", "RoutingService"))
    /\ UNCHANGED <<is_bootstrap_node, bound, dead, sent>>
    /\ UNCHANGED <<discVars, shifting, mockVars, gossipVars>>

Next ==
    \/ SendBind
    \/ SendIncipient
    \/ SendInbound
    \/ HandleBind
    \/ HandleIncipient
    \/ HandleInbound

Spec == Init /\ [][Next]_vars

(***************************************************************************)
(* The same Hopper fed sequences of messages, drawn from fewer messages.   *)
(***************************************************************************)
\* One route of every kind this node can meet, with one payload.
SeqIncipientPackages ==
    {icp \in IncipientPackages :
        /\ icp.payload = Raw("abcd")
        /\ icp.route \in {RouteNew(<<RouteSegment(<<KSelf, KSelf>>, "ProxyClient")>>).val,
                          RouteNew(<<RouteSegment(<<KSelf, KNext>>, "Neighborhood")>>).val}}

SeqInboundClientDatas ==
    {ibcd \in InboundClientDatas :
        /\ ibcd.peer_addr = SocketAddr("1.2.3.4", 5678)
        /\ ibcd.is_clandestine
        /\ ~ibcd.last_data
        /\ ibcd.sequence_number = None
        /\ \/ ibcd.data \in UndecryptableData \cup UndeserializableData
           \/ ibcd.data = Frame(LiveCoresPackage(UnencodableRoute,
                                                 encode(KNext, Raw("abcd")).val))
           \/ \E lcp \in LivePackages :
                /\ ibcd.data = Frame(lcp)
                /\ \/ lcp_next_hop(lcp).val.component = "ProxyServer"
                   \/ /\ lcp_next_hop(lcp).val.component = "Neighborhood"
                      /\ decode(KSelf, lcp.payload) = Ok(Raw("abcd"))
                   \/ lcp = LiveCoresPackage(
                                RouteNew(<<RouteSegment(<<KSelf, KNext>>,
                                                        "Neighborhood")>>).val,
                                encode(KNext, Raw("abcd")).val)}

SendIncipientSeq == SendIncipientOf(SeqIncipientPackages, MaxSeqMsgs)

SendInboundSeq == SendInboundOf(SeqInboundClientDatas, MaxSeqMsgs)

NextSeq ==
    \/ SendBind
    \/ SendIncipientSeq
    \/ SendInboundSeq
    \/ HandleBind
    \/ HandleIncipient
    \/ HandleInbound

SpecSeq == Init /\ [][NextSeq]_vars

(***************************************************************************)
(* The same Hopper fed a few messages over and over: a frame to relay, a    *)
(* frame for the Neighborhood, noise, and a package for this node itself.  *)
(***************************************************************************)
\* Messages the other actors send to the Hopper in one behaviour of
\* SpecRepeat.
MaxRepeatMsgs == 2

\* The package of a route [this node, this node] for component c, shifted once
\* by this node: its leading hop names this node and c.
ArrivedPackage(c) ==
    LiveCoresPackage(
        RouteShift(RouteNew(<<RouteSegment(<<KSelf, KSelf>>, c)>>).val,
                   KSelf, Garbage(1)).val.route,
        encode(KSelf, Raw("abcd")).val)

RepeatInboundClientDatas ==
    {ibcd \in SeqInboundClientDatas :
        ibcd.data \in {Garbage(1),
                       Frame(LiveCoresPackage(
                                RouteNew(<<RouteSegment(<<KSelf, KNext>>,
                                                        "Neighborhood")>>).val,
                                encode(KNext, Raw("abcd")).val)),
                       Frame(ArrivedPackage("Neighborhood"))}}

RepeatIncipientPackages ==
    {icp \in SeqIncipientPackages :
        icp.route = RouteNew(<<RouteSegment(<<KSelf, KSelf>>, "ProxyClient")>>).val}

SendIncipientRepeat == SendIncipientOf(RepeatIncipientPackages, MaxRepeatMsgs)

SendInboundRepeat == SendInboundOf(RepeatInboundClientDatas, MaxRepeatMsgs)

NextRepeat ==
    \/ SendBind
    \/ SendIncipientRepeat
    \/ SendInboundRepeat
    \/ HandleBind
    \/ HandleIncipient
    \/ HandleInbound

SpecRepeat == Init /\ [][NextRepeat]_vars

(***************************************************************************)
(* The same Hopper among actors that can die: the mailbox of one of its     *)
(* sinks stops accepting messages.                                         *)
(***************************************************************************)
\* The mailbox of a sink closes, or fills up.
SinkDies ==
    /\ ~panicked
    /\ dead = {}
    /\ \E s \in Sinks : dead' = {s}
    /\ UNCHANGED <<is_bootstrap_node, bound, mailbox, to_proxy_server, to_proxy_client,
                   to_neighborhood, to_dispatcher, log, panicked, sent, lastCall>>
    /\ UNCHANGED <<discVars, shifting, mockVars, gossipVars>>

NextDead ==
    \/ SendBind
    \/ SendIncipientSeq
    \/ SendInboundSeq
    \/ SinkDies
    \/ HandleBind
    \/ HandleIncipient
    \/ HandleInbound

SpecDead == Init /\ [][NextDead]_vars

(***************************************************************************)
(* The same Hopper on a node that only originates: every InboundClientData *)
(* it handles is one its own ConsumingService looped back.                 *)
(***************************************************************************)
NextOriginate ==
    \/ SendBind
    \/ SendIncipient
    \/ HandleBind
    \/ HandleIncipient
    \/ HandleInbound

SpecOriginate == Init /\ [][NextOriginate]_vars

(***************************************************************************)
(* Discriminator (node/src/discriminator.rs): a framer and an ordered list *)
(* of masqueraders.  A masquerader is the function try_unmask computes:    *)
(* from the bytes of a frame to the chunk it unmasks, if it unmasks one.   *)
(* A frame carries, beside its bytes, the number of the add_data call that *)
(* brought it, so that two frames of the same bytes can be told apart.     *)
(***************************************************************************)
\* Masqueraders a Discriminator is given at most.
MaxMasqueraders == 2

\* Calls of add_data in one behaviour.
MaxFrames == 2

\* Calls of take_chunk in one behaviour.
MaxTakes == 3

FrameBytes == {"booga", "wooga"}

\* UnmaskedChunk = (Component, Vec<u8>)
UnmaskedChunk(component, data) == <<component, data>>

\* The masqueraders: one that unmasks nothing, one that unmasks every frame,
\* one that unmasks the frames of its own protocol only.
MasqueraderKinds ==
    {[b \in FrameBytes |-> None],
     [b \in FrameBytes |-> Some(UnmaskedChunk("ProxyClient", "choose me"))],
     [b \in FrameBytes |-> IF b = "booga"
                           THEN Some(UnmaskedChunk("ProxyServer", "don't choose me"))
                           ELSE None]}

\* The lists of masqueraders Discriminator::new can be called with.
MasqueraderLists ==
    UNION {[1..n -> MasqueraderKinds] : n \in 0..MaxMasqueraders}

\* masquerader.try_unmask(&frame[..])
try_unmask(masquerader, frame) == masquerader[frame.bytes]

\* Discriminator::new, but an empty list of masqueraders is accepted.
new_unchecked(framer, masqueraders) ==
    [panic |-> None,
     discriminator |-> [framer |-> framer, masqueraders |-> masqueraders]]

\* Discriminator::new
new(framer, masqueraders) ==
    IF masqueraders = <<>>
    THEN [panic |-> Some("Discriminator must be given at least one Masquerader"),
          discriminator |-> None]
    ELSE [panic |-> None,
          discriminator |-> [framer |-> framer, masqueraders |-> masqueraders]]

\* Framer::add_data of the framer the tests give: the frame is put last.
add_data(framer, frame) == Append(framer, frame)

\* take_frame, but the frame stays in the framer.
take_frame_keeps(framer) ==
    IF framer = <<>> THEN [frame |-> None, framer |-> framer]
    ELSE [frame |-> Some(Head(framer)), framer |-> framer]

\* take_frame, but the frame added last is the one removed.
take_frame_newest(framer) ==
    IF framer = <<>> THEN [frame |-> None, framer |-> framer]
    ELSE [frame |-> Some(framer[Len(framer)]),
          framer |-> SubSeq(framer, 1, Len(framer) - 1)]

\* Framer::take_frame of the framer the tests give: the first frame is removed.
take_frame(framer) ==
    IF framer = <<>> THEN [frame |-> None, framer |-> framer]
    ELSE [frame |-> Some(Head(framer)), framer |-> Tail(framer)]

RECURSIVE for_masquerader(_, _, _, _)
\* The loop of take_chunk from masquerader i on: the chunk returned, and the
\* masqueraders asked, in order.
for_masquerader(masqueraders, i, frame, asked) ==
    IF i > Len(masqueraders) THEN [result |-> None, asked |-> asked]
    ELSE LET chunk == try_unmask(masqueraders[i], frame)
         IN  IF chunk # None
             THEN [result |-> chunk, asked |-> Append(asked, i)]
             ELSE for_masquerader(masqueraders, i + 1, frame, Append(asked, i))

RECURSIVE for_masquerader_goes_on(_, _, _, _, _)
\* The loop of take_chunk, but a match does not end it: the first chunk found is
\* returned after every masquerader has been asked.
for_masquerader_goes_on(masqueraders, i, frame, asked, found) ==
    IF i > Len(masqueraders) THEN [result |-> found, asked |-> asked]
    ELSE LET chunk == try_unmask(masqueraders[i], frame)
         IN  for_masquerader_goes_on(masqueraders, i + 1, frame, Append(asked, i),
                                     IF found = None THEN chunk ELSE found)

\* take_chunk, but the masqueraders after the first match are asked too.
take_chunk_asks_all(d) ==
    LET taken == take_frame(d.framer)
    IN  IF taken.frame = None
        THEN [result |-> None, asked |-> <<>>, frame |-> None,
              discriminator |-> [d EXCEPT !.framer = taken.framer]]
        ELSE LET loop == for_masquerader_goes_on(d.masqueraders, 1, taken.frame.val,
                                                 <<>>, None)
             IN  [result |-> loop.result, asked |-> loop.asked, frame |-> taken.frame,
                  discriminator |-> [d EXCEPT !.framer = taken.framer]]

\* take_chunk, but without a frame the masqueraders are asked about no bytes.
take_chunk_asks_without_frame(d) ==
    LET taken == take_frame(d.framer)
        frame == IF taken.frame = None THEN Some([id |-> 0, bytes |-> "booga"])
                 ELSE taken.frame
        loop == for_masquerader(d.masqueraders, 1, frame.val, <<>>)
    IN  [result |-> loop.result, asked |-> loop.asked, frame |-> frame,
         discriminator |-> [d EXCEPT !.framer = taken.framer]]

\* Discriminator::take_chunk: the chunk returned, the masqueraders asked, the
\* frame taken, and the discriminator afterwards.
take_chunk(d) ==
    LET taken == take_frame(d.framer)
    IN  IF taken.frame = None
        THEN [result |-> None, asked |-> <<>>, frame |-> None,
              discriminator |-> [d EXCEPT !.framer = taken.framer]]
        ELSE LET loop == for_masquerader(d.masqueraders, 1, taken.frame.val, <<>>)
             IN  [result |-> loop.result, asked |-> loop.asked, frame |-> taken.frame,
                  discriminator |-> [d EXCEPT !.framer = taken.framer]]

hopperVars == <<is_bootstrap_node, bound, mailbox, to_proxy_server, to_proxy_client,
                to_neighborhood, to_dispatcher, log, panicked, dead, sent, lastCall>>

\* Discriminator::new (framer, masqueraders), with an empty framer.
New ==
    /\ construction = "none"
    /\ \E masqueraders \in MasqueraderLists :
        LET made == new(<<>>, masqueraders)
        IN  /\ discriminator' = made.discriminator
            /\ construction' = IF made.panic = None THEN "built" ELSE made.panic.val
    /\ UNCHANGED <<observed, hopperVars, shifting, mockVars, gossipVars>>

\* subject.add_data (data)
AddData ==
    /\ construction = "built"
    /\ observed.added < MaxFrames
    /\ \E b \in FrameBytes :
        discriminator' =
            [discriminator EXCEPT
                !.framer = add_data(@, [id |-> observed.added + 1, bytes |-> b])]
    /\ observed' = [observed EXCEPT !.added = @ + 1]
    /\ UNCHANGED <<construction, hopperVars, shifting, mockVars, gossipVars>>

\* subject.take_chunk ()
TakeChunk ==
    /\ construction = "built"
    /\ observed.takes < MaxTakes
    /\ LET took == take_chunk(discriminator)
           n == observed.takes + 1
       IN  /\ discriminator' = took.discriminator
           /\ observed' =
                [observed EXCEPT
                    !.takes = n,
                    !.frame = took.frame,
                    !.result = took.result,
                    !.calls = @ \o [j \in 1..Len(took.asked) |->
                                        [take |-> n, masquerader |-> took.asked[j],
                                         frame |-> took.frame.val]]]
    /\ UNCHANGED <<construction, hopperVars, shifting, mockVars, gossipVars>>

NextDiscriminator ==
    \/ New
    \/ AddData
    \/ TakeChunk

SpecDiscriminator == Init /\ [][NextDiscriminator]_vars

(***************************************************************************)
(* A route on its way: built by Route::new, then shifted by each node it   *)
(* reaches, with that node's engine.                                       *)
(***************************************************************************)
\* The key of a node further on.
KFar == <<66, 66, 66>>

\* The nodes a route can reach.
ShiftKeys == Keys \cup {KFar}

\* The segment lists routes are built from: one segment, or a way there and a
\* way back.
ShiftSegments ==
    {<<RouteSegment(keys, c)>> : keys \in SegmentKeys, c \in Components}
    \cup
    {<<RouteSegment(<<KSelf, KNext, KFar>>, c)>> : c \in Components}
    \cup
    {<<RouteSegment(<<KSelf, KNext>>, c), RouteSegment(<<KNext, KSelf>>, "ProxyServer")>> :
        c \in {"ProxyClient", "Neighborhood"}}

\* Route::new(segments, cryptde).unwrap()
BuildRoute ==
    /\ shifting = None
    /\ \E segs \in ShiftSegments :
        shifting' = [original |-> RouteNew(segs).val, route |-> RouteNew(segs).val,
                     shifts |-> 0, segs |-> segs, revealed |-> <<>>]
    /\ UNCHANGED <<hopperVars, discVars, mockVars, gossipVars>>

\* route.shift(cryptde), by the node whose engine decodes the leading hop.
Shift ==
    /\ shifting # None
    /\ \E self \in ShiftKeys, garbage \in GarbageHops :
        LET shifted == RouteShift(shifting.route, self, garbage)
        IN  /\ shifted.ok
            /\ shifting' = [shifting EXCEPT
                                !.route = shifted.val.route,
                                !.shifts = @ + 1,
                                !.revealed = Append(@, [peer |-> self,
                                                        hop |-> shifted.val.hop])]
    /\ UNCHANGED <<hopperVars, discVars, mockVars, gossipVars>>

NextShift ==
    \/ BuildRoute
    \/ Shift

SpecShift == Init /\ [][NextShift]_vars

(***************************************************************************)
(* MockNode: the listener thread of a port, the stream-reader thread of a  *)
(* peer, and write_with_retry.                                             *)
(***************************************************************************)
\* std::io::ErrorKind, as far as the threads tell the kinds apart.
ErrorKinds == {"BrokenPipe", "WouldBlock"}

\* sub_lib::utils::indicates_dead_stream(kind)
indicates_dead_stream(kind) == kind \in {"BrokenPipe", "ConnectionReset", "ConnectionAborted"}

\* What stream.write(buf) can return: the number of bytes taken, or an error.
WriteResults(buf) == {Ok(n) : n \in 1..Len(buf)} \cup {Err(k) : k \in ErrorKinds}

\* What stream.read(&mut buf) can return: a length, 0 at the end of the
\* stream, or an error.
ReadResults == {Ok(n) : n \in 0..1} \cup {Err(k) : k \in ErrorKinds}

\* DataHunk::new(peer_addr, local_addr, data).into(): the bytes of a hunk.
Serialized(peer_addr, data) == <<peer_addr, data>>

\* write_with_retry, but a transient error ends it like a dead stream's.
write_with_retry_gives_up(buf, peer_addr, result) ==
    IF ~result.ok
    THEN [returned |-> Some(FALSE),
          eprintln |-> <<[text |-> "Write error to {}: {}", peer |-> peer_addr,
                          arg |-> result.err]>>,
          shutdown |-> TRUE,
          written |-> <<>>]
    ELSE [returned |-> Some(TRUE), eprintln |-> <<>>, shutdown |-> FALSE,
          written |-> SubSeq(buf, 1, result.val)]

\* write_with_retry, after stream.write(buf) returned result: what it returns
\* (None: it calls itself with the same stream and buf), what it prints,
\* whether it shuts the stream down, and the bytes the stream took.
write_with_retry(buf, peer_addr, result) ==
    IF ~result.ok /\ indicates_dead_stream(result.err)
    THEN [returned |-> Some(FALSE),
          eprintln |-> <<[text |-> "Write error to {}: {}", peer |-> peer_addr,
                          arg |-> result.err]>>,
          shutdown |-> TRUE,
          written |-> <<>>]
    ELSE IF ~result.ok
    THEN [returned |-> None, eprintln |-> <<>>, shutdown |-> FALSE, written |-> <<>>]
    ELSE [returned |-> Some(TRUE), eprintln |-> <<>>, shutdown |-> FALSE,
          written |-> SubSeq(buf, 1, result.val)]

\* The loop of open_port's thread, but an accept error ends it.
listener_loop_breaks(l, port, result) ==
    IF ~result.ok
    THEN [thread |-> [l EXCEPT !.results = Append(@, result), !.pc = "done"],
          eprintln |-> <<[text |-> "Error accepting stream on port {}; continuing: {}",
                          peer |-> port, arg |-> result.err]>>,
          insert |-> None, start_stream_reader |-> None]
    ELSE [thread |-> [l EXCEPT !.results = Append(@, result)],
          eprintln |-> <<>>,
          insert |-> Some([key |-> result.val.peer_addr,
                           stream |-> result.val.stream]),
          start_stream_reader |-> Some(result.val.peer_addr)]

\* One turn of the loop of open_port's thread, after listener.accept() returned
\* result: an error is printed and the loop goes on; a stream is cloned into
\* the table, under the table's mutex, and a reader is started for it.
listener_loop(l, port, result) ==
    IF ~result.ok
    THEN [thread |-> [l EXCEPT !.results = Append(@, result)],
          eprintln |-> <<[text |-> "Error accepting stream on port {}; continuing: {}",
                          peer |-> port, arg |-> result.err]>>,
          insert |-> None, start_stream_reader |-> None]
    ELSE [thread |-> [l EXCEPT !.results = Append(@, result)],
          eprintln |-> <<>>,
          insert |-> Some([key |-> result.val.peer_addr,
                           stream |-> result.val.stream]),
          start_stream_reader |-> Some(result.val.peer_addr)]

\* The accept errors among the results of a listener's accept calls.
AcceptErrors(l) == SelectSeq(l.results, LAMBDA r : ~r.ok)

\* write_streams.insert(key, stream)
insert(table, key, stream) ==
    [q \in DOMAIN table \cup {key} |-> IF q = key THEN stream ELSE table[q]]

\* eprintln!: the lines printed, without the order of the threads' lines.
Printed(lines) == stderr (+) SetToBag({lines[i] : i \in 1..Len(lines)})

hopperDiscShift == <<hopperVars, discVars, shifting>>

\* The TcpStream of the connection a peer made.
StreamOf(peer_addr) == [tag |-> "TcpStream", peer |-> peer_addr]

\* What listener.accept() can return: the stream of a peer that connects, with
\* the peer's address, or an error.
AcceptResults ==
    {Ok([stream |-> StreamOf(p), peer_addr |-> p]) :
        p \in {q \in PeerAddrs : streams[q] = "none"}}
    \cup {Err("ConnectionAborted")}

\* One turn of the loop of the thread open_port starts for port.
Accept(port) ==
    /\ listener[port].pc = "accept"
    /\ \E result \in AcceptResults :
        /\ result.ok \/ Len(AcceptErrors(listener[port])) < MaxAcceptErrors
        /\ result.ok => write_streams_lock = None
        /\ LET body == listener_loop(listener[port], port, result)
           IN  /\ listener' = [listener EXCEPT ![port] = body.thread]
               /\ stderr' = Printed(body.eprintln)
               /\ write_streams' =
                        IF body.insert = None THEN write_streams
                        ELSE insert(write_streams, body.insert.val.key,
                                    body.insert.val.stream)
               /\ readers' = IF body.start_stream_reader = None THEN readers
                             ELSE [readers EXCEPT ![body.start_stream_reader.val] =
                                        [NoReader EXCEPT !.pc = "read"]]
        /\ streams' = IF result.ok THEN [streams EXCEPT ![result.val.peer_addr] = "open"]
                      ELSE streams
    /\ UNCHANGED <<control_stream, mainVars, hopperDiscShift, gossipVars>>

\* stream.read(&mut buf) in the reader thread of peer_addr, and the arm of the
\* match its result selects.
Read(peer_addr) ==
    /\ readers[peer_addr].pc = "read"
    /\ readers[peer_addr].reads < MaxReads
    /\ \E result \in ReadResults :
        LET r == [readers[peer_addr] EXCEPT !.reads = @ + 1]
        IN  IF ~result.ok /\ indicates_dead_stream(result.err)
            THEN /\ stderr' = Printed(<<[text |-> "Read error from {}: {}",
                                          peer |-> peer_addr, arg |-> result.err]>>)
                 /\ streams' = [streams EXCEPT ![peer_addr] = "shutdown"]
                 /\ readers' = [readers EXCEPT ![peer_addr] = [r EXCEPT !.pc = "done"]]
            ELSE IF result.ok /\ result.val = 0
            THEN /\ stderr' = Printed(<<[text |-> "{} shut down stream",
                                          peer |-> peer_addr, arg |-> "none"]>>)
                 /\ streams' = [streams EXCEPT ![peer_addr] = "shutdown"]
                 /\ readers' = [readers EXCEPT ![peer_addr] = r]
            ELSE IF result.ok
            THEN /\ streams[peer_addr] = "open"
                 /\ readers' = [readers EXCEPT ![peer_addr] =
                                    [r EXCEPT !.pc = "lock",
                                              !.buf = Some(Serialized(peer_addr, r.reads)),
                                              !.writes = <<>>,
                                              !.returned = None]]
                 /\ UNCHANGED <<stderr, streams>>
            ELSE /\ readers' = [readers EXCEPT ![peer_addr] = r]
                 /\ UNCHANGED <<stderr, streams>>
    /\ UNCHANGED <<listener, write_streams, control_stream, mainVars, hopperDiscShift, gossipVars>>

\* write_control_stream_arc.lock(): the reader waits for the mutex.
LockControlStream(peer_addr) ==
    /\ readers[peer_addr].pc = "lock"
    /\ control_stream.lock = None
    /\ control_stream' = [control_stream EXCEPT !.lock = Some(peer_addr)]
    /\ readers' = [readers EXCEPT ![peer_addr].pc = "write"]
    /\ UNCHANGED <<listener, write_streams, streams, stderr, mainVars, hopperDiscShift, gossipVars>>

\* Write, but the mutex is given up before every retry as well.
Write_unlocks_to_retry(peer_addr) ==
    /\ readers[peer_addr].pc = "write"
    /\ \E result \in WriteResults(readers[peer_addr].buf.val) :
        /\ result.ok => ~control_stream.shutdown
        /\ (~result.ok /\ ~indicates_dead_stream(result.err))
                => Len(readers[peer_addr].writes) < MaxRetries
        /\ LET r == readers[peer_addr]
               call == write_with_retry(r.buf.val, peer_addr, result)
               attempt == [buf |-> r.buf.val, stream |-> "control", result |-> result]
           IN  /\ stderr' = Printed(call.eprintln)
               /\ control_stream' =
                    [lock |-> None,
                     written |-> control_stream.written \o call.written,
                     shutdown |-> control_stream.shutdown \/ call.shutdown]
               /\ readers' = [readers EXCEPT ![peer_addr] =
                                [r EXCEPT !.writes = Append(@, attempt),
                                          !.returned = call.returned,
                                          !.pc = CASE call.returned = None -> "write"
                                                   [] call.returned = Some(TRUE) -> "read"
                                                   [] OTHER -> "done"]]
    /\ UNCHANGED <<listener, write_streams, streams, mainVars, hopperDiscShift, gossipVars>>

\* stream.write(buf) in write_with_retry, called by the reader of peer_addr on
\* the control stream; when write_with_retry returns, the mutex is released and
\* the reader reads on (true) or ends (false).
Write(peer_addr) ==
    /\ readers[peer_addr].pc = "write"
    /\ \E result \in WriteResults(readers[peer_addr].buf.val) :
        /\ result.ok => ~control_stream.shutdown
        /\ (~result.ok /\ ~indicates_dead_stream(result.err))
                => Len(readers[peer_addr].writes) < MaxRetries
        /\ LET r == readers[peer_addr]
               call == write_with_retry(r.buf.val, peer_addr, result)
               attempt == [buf |-> r.buf.val, stream |-> "control", result |-> result]
           IN  /\ stderr' = Printed(call.eprintln)
               /\ control_stream' =
                    [lock |-> IF call.returned = None THEN control_stream.lock ELSE None,
                     written |-> control_stream.written \o call.written,
                     shutdown |-> control_stream.shutdown \/ call.shutdown]
               /\ readers' = [readers EXCEPT ![peer_addr] =
                                [r EXCEPT !.writes = Append(@, attempt),
                                          !.returned = call.returned,
                                          !.pc = CASE call.returned = None -> "write"
                                                   [] call.returned = Some(TRUE) -> "read"
                                                   [] OTHER -> "done"]]
    /\ UNCHANGED <<listener, write_streams, streams, mainVars, hopperDiscShift, gossipVars>>

NextMockNode ==
    \/ \E port \in Ports : Accept(port)
    \/ \E peer_addr \in PeerAddrs : Read(peer_addr)
    \/ \E peer_addr \in PeerAddrs : LockControlStream(peer_addr)
    \/ \E peer_addr \in PeerAddrs : Write(peer_addr)

SpecMockNode == Init /\ [][NextMockNode]_vars

\* The same threads, each of which goes on running: a thread that can take its
\* next step takes it.
SpecMockNodeFair ==
    /\ SpecMockNode
    /\ \A peer_addr \in PeerAddrs :
        /\ WF_vars(Read(peer_addr))
        /\ WF_vars(LockControlStream(peer_addr))
        /\ WF_vars(Write(peer_addr))

(***************************************************************************)
(* The main thread of the MockNode: the loop of initialize, which takes    *)
(* the data hunks framed from the control stream and writes the data of    *)
(* each to the stream of its destination.                                  *)
(***************************************************************************)
\* Calls of read on the control stream by the main thread in one behaviour.
MaxControlReads == 2

\* The main thread, as the holder of a mutex.
MainThread == [thread |-> "main"]

\* DataHunk: the k-th hunk framed from the control stream, for destination to.
DataHunk(to, k) == [to |-> to, data |-> <<k, k>>]

\* The hunks one read of the control stream completes in the framer, by their
\* destinations: none, one, or two.
ControlBatches ==
    {<<>>} \cup {<<p>> : p \in PeerAddrs} \cup {<<p, q>> : p, q \in PeerAddrs}

\* What read on the control stream can return: bytes that complete the hunks
\* of a batch, or an error.
ControlReadResults == {Ok(b) : b \in ControlBatches} \cup {Err(k) : k \in ErrorKinds}

\* framer.add_data(&buf[..len]) of the DataHunkFramer: the hunks the bytes
\* complete join the framer, numbered on.
framer_add_data(m, batch) ==
    [m EXCEPT !.framer = @ \o [i \in 1..Len(batch) |-> DataHunk(batch[i], m.framed + i)],
              !.framed = @ + Len(batch)]

\* What TcpStream::connect(data_hunk.to) can return.
ConnectResults(to) == {Ok(StreamOf(to)), Err("ConnectionRefused")}

\* framer.take_frame() at the top of the inner loop: with no frame the thread
\* goes to read the control stream; with one it goes for the write streams.
TakeFrame ==
    /\ main.pc = "take"
    /\ main' = IF main.framer = <<>>
               THEN [main EXCEPT !.pc = "read"]
               ELSE [main EXCEPT !.pc = "lock",
                                 !.data_hunk = Some(Head(main.framer)),
                                 !.framer = Tail(main.framer)]
    /\ UNCHANGED <<listener, write_streams, readers, streams, control_stream, stderr,
                   write_streams_lock, hopperDiscShift, gossipVars>>

\* self.write_streams(): the main thread waits for the mutex, and with it looks
\* the destination up.
LockWriteStreams ==
    /\ main.pc = "lock"
    /\ write_streams_lock = None
    /\ write_streams_lock' = Some(MainThread)
    /\ main' = [main EXCEPT !.pc = IF main.data_hunk.val.to \in DOMAIN write_streams
                                   THEN "write" ELSE "connect"]
    /\ UNCHANGED <<listener, write_streams, readers, streams, control_stream, stderr,
                   hopperDiscShift, gossipVars>>

\* TcpStream::connect(data_hunk.to) for a destination without a stream: failure
\* is printed and the hunk given up; the new stream goes into the table and a
\* reader is started for it.
Connect ==
    /\ main.pc = "connect"
    /\ \E result \in ConnectResults(main.data_hunk.val.to) :
        LET to == main.data_hunk.val.to
        IN  IF ~result.ok
            THEN /\ stderr' = Printed(<<[text |-> "Error connecting new stream from {} to {}, ignoring: {}",
                                         peer |-> to, arg |-> result.err]>>)
                 /\ main' = [main EXCEPT !.pc = "take",
                                         !.data_hunk = None,
                                         !.handled = Append(@, [hunk |-> main.data_hunk.val,
                                                                result |-> result])]
                 /\ write_streams_lock' = None
                 /\ UNCHANGED <<write_streams, readers, streams>>
            ELSE /\ streams[to] = "none"
                 /\ write_streams' = insert(write_streams, to, result.val)
                 /\ readers' = [readers EXCEPT ![to] = [NoReader EXCEPT !.pc = "read"]]
                 /\ streams' = [streams EXCEPT ![to] = "open"]
                 /\ main' = [main EXCEPT !.pc = "write"]
                 /\ UNCHANGED <<stderr, write_streams_lock>>
    /\ UNCHANGED <<listener, control_stream, hopperDiscShift, gossipVars>>

\* WriteData, but the main thread goes to read the control stream after every
\* hunk it has written.
WriteData_then_reads ==
    /\ main.pc = "write"
    /\ \E result \in WriteResults(main.data_hunk.val.data) :
        LET to == main.data_hunk.val.to
            call == write_with_retry(main.data_hunk.val.data, to, result)
        IN  /\ result.ok => streams[to] = "open"
            /\ (~result.ok /\ ~indicates_dead_stream(result.err))
                    => main.attempts < MaxRetries
            /\ stderr' = Printed(call.eprintln)
            /\ streams' = IF call.shutdown THEN [streams EXCEPT ![to] = "shutdown"]
                          ELSE streams
            /\ write_streams_lock' = IF call.returned = None THEN write_streams_lock
                                     ELSE None
            /\ main' = CASE call.returned = None ->
                                [main EXCEPT !.attempts = @ + 1]
                         [] call.returned = Some(TRUE) ->
                                [main EXCEPT !.pc = "read",
                                             !.attempts = 0,
                                             !.data_hunk = None,
                                             !.handled = Append(@, [hunk |-> main.data_hunk.val,
                                                                    result |-> result])]
                         [] OTHER ->
                                [main EXCEPT !.pc = "exited",
                                             !.attempts = 0,
                                             !.data_hunk = None,
                                             !.handled = Append(@, [hunk |-> main.data_hunk.val,
                                                                    result |-> result]),
                                             !.returned = Some(1)]
    /\ UNCHANGED <<listener, write_streams, readers, control_stream, hopperDiscShift, gossipVars>>

\* WriteData, but the guard of write_streams is kept after the hunk is written.
WriteData_keeps_guard ==
    /\ main.pc = "write"
    /\ \E result \in WriteResults(main.data_hunk.val.data) :
        LET to == main.data_hunk.val.to
            call == write_with_retry(main.data_hunk.val.data, to, result)
        IN  /\ result.ok => streams[to] = "open"
            /\ (~result.ok /\ ~indicates_dead_stream(result.err))
                    => main.attempts < MaxRetries
            /\ stderr' = Printed(call.eprintln)
            /\ streams' = IF call.shutdown THEN [streams EXCEPT ![to] = "shutdown"]
                          ELSE streams
            /\ write_streams_lock' = IF call.returned = Some(FALSE) THEN None
                                     ELSE write_streams_lock
            /\ main' = CASE call.returned = None ->
                                [main EXCEPT !.attempts = @ + 1]
                         [] call.returned = Some(TRUE) ->
                                [main EXCEPT !.pc = "take",
                                             !.attempts = 0,
                                             !.data_hunk = None,
                                             !.handled = Append(@, [hunk |-> main.data_hunk.val,
                                                                    result |-> result])]
                         [] OTHER ->
                                [main EXCEPT !.pc = "exited",
                                             !.attempts = 0,
                                             !.data_hunk = None,
                                             !.handled = Append(@, [hunk |-> main.data_hunk.val,
                                                                    result |-> result]),
                                             !.returned = Some(1)]
    /\ UNCHANGED <<listener, write_streams, readers, control_stream, hopperDiscShift, gossipVars>>

\* stream.write in write_with_retry, called by the main thread on the stream of
\* the hunk's destination with the hunk's data: when write_with_retry returns
\* true the guard of write_streams is dropped and the inner loop goes on; when
\* it returns false, initialize returns 1.
WriteData ==
    /\ main.pc = "write"
    /\ \E result \in WriteResults(main.data_hunk.val.data) :
        LET to == main.data_hunk.val.to
            call == write_with_retry(main.data_hunk.val.data, to, result)
        IN  /\ result.ok => streams[to] = "open"
            /\ (~result.ok /\ ~indicates_dead_stream(result.err))
                    => main.attempts < MaxRetries
            /\ stderr' = Printed(call.eprintln)
            /\ streams' = IF call.shutdown THEN [streams EXCEPT ![to] = "shutdown"]
                          ELSE streams
            /\ write_streams_lock' = IF call.returned = None THEN write_streams_lock
                                     ELSE None
            /\ main' = CASE call.returned = None ->
                                [main EXCEPT !.attempts = @ + 1]
                         [] call.returned = Some(TRUE) ->
                                [main EXCEPT !.pc = "take",
                                             !.attempts = 0,
                                             !.data_hunk = None,
                                             !.handled = Append(@, [hunk |-> main.data_hunk.val,
                                                                    result |-> result])]
                         [] OTHER ->
                                [main EXCEPT !.pc = "exited",
                                             !.attempts = 0,
                                             !.data_hunk = None,
                                             !.handled = Append(@, [hunk |-> main.data_hunk.val,
                                                                    result |-> result]),
                                             !.returned = Some(1)]
    /\ UNCHANGED <<listener, write_streams, readers, control_stream, hopperDiscShift, gossipVars>>

\* self.read_control_stream().read(&mut buf), once the framer has no frame left:
\* bytes go to the framer, a dead stream's error is printed and ends the
\* loop, any other error is passed over.
ReadControl ==
    /\ main.pc = "read"
    /\ main.reads < MaxControlReads
    /\ \E result \in ControlReadResults :
        LET m == [main EXCEPT !.reads = @ + 1]
        IN  IF ~result.ok /\ indicates_dead_stream(result.err)
            THEN /\ stderr' = Printed(<<[text |-> "Read error from control stream: {}",
                                         peer |-> "control", arg |-> result.err]>>)
                 /\ main' = [m EXCEPT !.pc = "shutdown"]
            ELSE IF result.ok
            THEN /\ main' = [framer_add_data(m, result.val) EXCEPT !.pc = "take"]
                 /\ stderr' = stderr
            ELSE /\ main' = [m EXCEPT !.pc = "take"]
                 /\ stderr' = stderr
    /\ UNCHANGED <<listener, write_streams, readers, streams, control_stream,
                   write_streams_lock, hopperDiscShift, gossipVars>>

\* self.write_control_stream(): the main thread waits for the mutex of the
\* control stream.
LockControlStreamToShutDown ==
    /\ main.pc = "shutdown"
    /\ control_stream.lock = None
    /\ control_stream' = [control_stream EXCEPT !.lock = Some(MainThread)]
    /\ main' = [main EXCEPT !.pc = "shutting"]
    /\ UNCHANGED <<listener, write_streams, readers, streams, stderr,
                   write_streams_lock, hopperDiscShift, gossipVars>>

\* .shutdown(Shutdown::Both).unwrap(); break: the control stream is shut down,
\* its guard dropped, and initialize returns 0.
ShutdownControlStream ==
    /\ main.pc = "shutting"
    /\ control_stream' = [control_stream EXCEPT !.lock = None, !.shutdown = TRUE]
    /\ main' = [main EXCEPT !.pc = "exited", !.returned = Some(0)]
    /\ UNCHANGED <<listener, write_streams, readers, streams, stderr,
                   write_streams_lock, hopperDiscShift, gossipVars>>

\* The main thread alone: no peer connects to the node and the peers the node
\* connects to send nothing, so that the listeners wait in accept and the
\* readers in read.
NextMain ==
    \/ TakeFrame
    \/ LockWriteStreams
    \/ Connect
    \/ WriteData
    \/ ReadControl
    \/ LockControlStreamToShutDown
    \/ ShutdownControlStream

SpecMain == Init /\ [][NextMain]_vars

\* An environment without passing faults: accept does not fail, no write meets
\* a transient error or takes only a part of its buffer, and a read of the
\* control stream completes one hunk at most.
CalmEnvironment ==
    /\ \A port \in Ports : AcceptErrors(listener[port]) = <<>>
    /\ \A peer_addr \in PeerAddrs :
         \A i \in 1..Len(readers[peer_addr].writes) :
            LET attempt == readers[peer_addr].writes[i]
            IN  IF attempt.result.ok THEN attempt.result.val = Len(attempt.buf)
                ELSE indicates_dead_stream(attempt.result.err)
    /\ main.attempts = 0
    /\ \A i \in 1..Len(main.handled) :
         main.handled[i].result.ok
            => main.handled[i].result.val = Len(main.handled[i].hunk.data)
    /\ Len(main.framer) <= 1

\* The main thread, the listeners and the readers together.
NextThreads ==
    \/ TakeFrame /\ CalmEnvironment'
    \/ LockWriteStreams /\ CalmEnvironment'
    \/ Connect /\ CalmEnvironment'
    \/ WriteData /\ CalmEnvironment'
    \/ ReadControl /\ CalmEnvironment'
    \/ LockControlStreamToShutDown /\ CalmEnvironment'
    \/ ShutdownControlStream /\ CalmEnvironment'
    \/ \E port \in Ports : Accept(port) /\ CalmEnvironment'
    \/ \E peer_addr \in PeerAddrs : Read(peer_addr) /\ CalmEnvironment'
    \/ \E peer_addr \in PeerAddrs : LockControlStream(peer_addr) /\ CalmEnvironment'
    \/ \E peer_addr \in PeerAddrs : Write(peer_addr) /\ CalmEnvironment'

SpecThreads == Init /\ [][NextThreads]_vars

(***************************************************************************)
(* The GossipBuilder of the integration tests                              *)
(* (multinode_integration_tests/src/gossip_builder.rs).                    *)
(***************************************************************************)
\* Nodes a test puts into one builder.
MaxNodes == 2

\* Connections a test puts into one builder.
MaxConnections == 2

\* The keys a test names.
GossipKeys == {KSelf, KNext, KFar}

\* The SubstratumNodes a test has started: their keys and addresses.
SubstratumNodes ==
    {[public_key |-> KSelf, node_addr |-> SocketAddr("1.2.3.4", 5678)],
     [public_key |-> KNext, node_addr |-> SocketAddr("5.6.7.8", 1234)]}

\* The NodeRecordInners a test makes up for nodes that do not run.
FictionalNodeRecords ==
    {[public_key |-> KFar, node_addr_opt |-> None, is_bootstrap_node |-> FALSE,
      wallet |-> None, neighbors |-> <<KSelf>>, version |-> 2],
     [public_key |-> KNext, node_addr_opt |-> None, is_bootstrap_node |-> FALSE,
      wallet |-> None, neighbors |-> <<>>, version |-> 1]}

\* CryptDENull::from(&key)
CryptDENull_from(key) == [tag |-> "CryptDENull", key |-> key]

\* cryptde.sign(data): the signature a CryptDE makes of data.
sign(signer, data) == [tag |-> "signature", key |-> signer.key, data |-> data]

\* NodeSignatures::from(cryptde, node_record_inner): the signature of the
\* record, and the signature of the record without its address.
NodeSignatures_from(signer, node_record_inner) ==
    [complete |-> sign(signer, node_record_inner),
     obscured |-> sign(signer, [node_record_inner EXCEPT !.node_addr_opt = None])]

add_node(builder, node, is_bootstrap, include_ip) ==
    [builder EXCEPT !.node_info = Append(@,
        [node_record_inner |->
            [public_key |-> node.public_key,
             node_addr_opt |-> IF include_ip THEN Some(node.node_addr) ELSE None,
             is_bootstrap_node |-> is_bootstrap,
             wallet |-> None,
             neighbors |-> <<>>,
             version |-> 0],
         cryptde |-> CryptDENull_from(node.public_key)])]

add_fictional_node(builder, node_record) ==
    [builder EXCEPT !.node_info = Append(@,
        [node_record_inner |-> node_record,
         cryptde |-> CryptDENull_from(node_record.public_key)])]

add_connection(builder, from_key, to_key) ==
    [builder EXCEPT !.connection_pairs = Append(@, <<from_key, to_key>>)]

\* node_records.iter_mut().find(|n| n.inner.public_key == from_key): the place
\* of the first record with the key, 0 when there is none.
find(node_records, from_key) ==
    LET found == {i \in 1..Len(node_records) :
                    node_records[i].inner.public_key = from_key}
    IN  IF found = {} THEN 0
        ELSE CHOOSE i \in found : \A j \in found : i <= j

\* The for_each over the connection pairs in build, from the k-th pair on: the
\* records with the neighbors pushed, or the panic of the first pair whose
\* from_key no record has.
RECURSIVE for_each(_, _, _)
for_each(connection_pairs, k, node_records) ==
    IF k > Len(connection_pairs)
    THEN [tag |-> "Gossip", node_records |-> node_records]
    ELSE LET from_key == connection_pairs[k][1]
             to_key == connection_pairs[k][2]
             from_node_ref == find(node_records, from_key)
         IN  IF from_node_ref # 0
             THEN for_each(connection_pairs, k + 1,
                    [node_records EXCEPT ![from_node_ref].inner.neighbors =
                        Append(@, to_key)])
             ELSE [tag |-> "panic",
                   msg |-> "You directed that {:?} should be made a neighbor of {:?}, but {:?} was never added to the GossipBuilder",
                   args |-> <<to_key, from_key, from_key>>]

\* build, but the connection pairs are gone through from the last added.
build_newest_first(builder) ==
    for_each([k \in 1..Len(builder.connection_pairs) |->
                builder.connection_pairs[Len(builder.connection_pairs) + 1 - k]], 1,
             [i \in 1..Len(builder.node_info) |->
                [inner |-> builder.node_info[i].node_record_inner,
                 signatures |-> NodeSignatures_from(builder.node_info[i].cryptde,
                                    builder.node_info[i].node_record_inner)]])

\* GossipBuilder::build: a record for each node, signed as it was added, then
\* the neighbors of the connection pairs.
build(builder) ==
    for_each(builder.connection_pairs, 1,
             [i \in 1..Len(builder.node_info) |->
                [inner |-> builder.node_info[i].node_record_inner,
                 signatures |-> NodeSignatures_from(builder.node_info[i].cryptde,
                                    builder.node_info[i].node_record_inner)]])

\* A test adds a running node to the builder.
AddNode ==
    /\ gossip = None
    /\ Len(gossip_builder.node_info) < MaxNodes
    /\ \E node \in SubstratumNodes, is_bootstrap \in BOOLEAN, include_ip \in BOOLEAN :
        gossip_builder' = add_node(gossip_builder, node, is_bootstrap, include_ip)
    /\ UNCHANGED <<gossip, hopperDiscShift, mockVars>>

\* A test adds a made-up node to the builder.
AddFictionalNode ==
    /\ gossip = None
    /\ Len(gossip_builder.node_info) < MaxNodes
    /\ \E node_record \in FictionalNodeRecords :
        gossip_builder' = add_fictional_node(gossip_builder, node_record)
    /\ UNCHANGED <<gossip, hopperDiscShift, mockVars>>

\* A test adds a connection to the builder.
AddConnection ==
    /\ gossip = None
    /\ Len(gossip_builder.connection_pairs) < MaxConnections
    /\ \E from_key \in GossipKeys, to_key \in GossipKeys :
        gossip_builder' = add_connection(gossip_builder, from_key, to_key)
    /\ UNCHANGED <<gossip, hopperDiscShift, mockVars>>

\* A test builds the Gossip; the builder is spent, and is kept here as what the
\* Gossip was built from.
Build ==
    /\ gossip = None
    /\ gossip' = Some(build(gossip_builder))
    /\ UNCHANGED <<gossip_builder, hopperDiscShift, mockVars>>

NextGossip ==
    \/ AddNode
    \/ AddFictionalNode
    \/ AddConnection
    \/ Build

SpecGossip == Init /\ [][NextGossip]_vars

(***************************************************************************)
(* Properties.  Each speaks of the message handled last: lastCall.msg is   *)
(* the message, and what the sinks and the log hold beyond                 *)
(* lastCall.before is what handling it put there.                          *)
(***************************************************************************)
Since(q, n) == SubSeq(q, n + 1, Len(q))

NewProxyServer == Since(to_proxy_server, lastCall.before.proxy_server)

NewProxyClient == Since(to_proxy_client, lastCall.before.proxy_client)

NewNeighborhood == Since(to_neighborhood, lastCall.before.neighborhood)

NewDispatcher == Since(to_dispatcher, lastCall.before.dispatcher)

NewLog == Since(log, lastCall.before.log)

NewHopper == SentTo(lastCall.eff.sends, "hopper")

NoSinkReceived ==
    /\ NewProxyServer = <<>>
    /\ NewProxyClient = <<>>
    /\ NewNeighborhood = <<>>
    /\ NewDispatcher = <<>>
    /\ NewHopper = <<>>

\* The bytes are a LiveCoresPackage, serialized and encoded for this node.
IsFrame(data) ==
    /\ data.tag = "enc"
    /\ data.key = KSelf
    /\ data.plain.tag = "cbor"
    /\ data.plain.type = "LiveCoresPackage"

\* The LiveCoresPackage in a frame.
FrameLcp(data) == LiveCoresPackage(data.plain.route, data.plain.payload)

\* RoutingService.route has just handled a frame whose package's leading hop
\* names next_key and component.
RoutedTo(next_key, component) ==
    /\ lastCall.op = "route"
    /\ IsFrame(lastCall.msg.data)
    /\ Frame(FrameLcp(lastCall.msg.data)) = lastCall.msg.data
    /\ Head(FrameLcp(lastCall.msg.data).route) =
            EncryptedHop(KSelf, Hop(next_key, component))

\* The package of the frame handled last.
RoutedLcp == FrameLcp(lastCall.msg.data)

RejectionLine(component) ==
    [level |-> "ERROR", logger |-> "RoutingService",
     text |-> "Request for Bootstrap Node to route data to {:?}: rejected",
     arg |-> component]

\* C1: on a bootstrap node, route on a valid frame whose next hop carries
\* ProxyServer, ProxyClient or Hopper sends nothing to any sink and logs the
\* rejection of that component exactly once.
C1_BootstrapRejects ==
    \A k \in Keys, c \in {"ProxyServer", "ProxyClient", "Hopper"} :
        (is_bootstrap_node /\ RoutedTo(k, c))
            => /\ NoSinkReceived
               /\ NewLog = <<RejectionLine(c)>>
               /\ ~panicked

C1_Witness ==
    /\ is_bootstrap_node
    /\ RoutedTo(KNext, "Hopper")
    /\ NewLog = <<RejectionLine("Hopper")>>
    /\ to_dispatcher = <<>>

\* C2: route on a valid frame whose next hop carries Neighborhood delivers
\* exactly one message to the neighborhood sink, nothing to any other sink, and
\* logs no rejection, on a bootstrap node as on any other.
C2_NeighborhoodAccepted ==
    \A k \in Keys :
        RoutedTo(k, "Neighborhood")
            => /\ Len(NewNeighborhood) = 1
               /\ NewProxyServer = <<>>
               /\ NewProxyClient = <<>>
               /\ NewDispatcher = <<>>
               /\ NewHopper = <<>>
               /\ \A i \in 1..Len(NewLog), c \in Components : NewLog[i] # RejectionLine(c)
               /\ ~panicked

C2_Witness ==
    /\ is_bootstrap_node
    /\ RoutedTo(KSelf, "Neighborhood")
    /\ Len(to_neighborhood) = 1
    /\ log = <<>>

\* The ExpiredCoresPackage of lcp: its route as it came, its payload in plaintext.
Expired(lcp) == [remaining_route |-> lcp.route, payload |-> lcp.payload.plain]

\* C3: on a node that is no bootstrap node, route on a valid frame whose next hop
\* carries ProxyServer (ProxyClient) delivers exactly one ExpiredCoresPackage,
\* to_expired of the decoded package, to the proxy-server (proxy-client) sink and
\* nothing to any other sink.
C3_ProxyDelivery ==
    \A k \in Keys :
        /\ (~is_bootstrap_node /\ RoutedTo(k, "ProxyServer"))
            => /\ NewProxyServer = <<Expired(RoutedLcp)>>
               /\ NewProxyServer = <<to_expired(RoutedLcp).val>>
               /\ NewProxyClient = <<>>
               /\ NewNeighborhood = <<>>
               /\ NewDispatcher = <<>>
               /\ NewHopper = <<>>
        /\ (~is_bootstrap_node /\ RoutedTo(k, "ProxyClient"))
            => /\ NewProxyClient = <<Expired(RoutedLcp)>>
               /\ NewProxyClient = <<to_expired(RoutedLcp).val>>
               /\ NewProxyServer = <<>>
               /\ NewNeighborhood = <<>>
               /\ NewDispatcher = <<>>
               /\ NewHopper = <<>>

C3_Witness ==
    /\ ~is_bootstrap_node
    /\ RoutedTo(KSelf, "ProxyServer")
    /\ to_proxy_server = <<Expired(RoutedLcp)>>
    /\ to_proxy_server[1].payload = Raw("wxyz")
    /\ to_proxy_client = <<>>

\* C4: whatever route delivers to the neighborhood sink carries the IP of the
\* frame's peer_addr, without the port, and the expired form of the decoded
\* package, whose payload is the plaintext the originator supplied.
C4_NeighborhoodPackage ==
    (lastCall.op = "route" /\ NewNeighborhood # <<>>)
        => /\ IsFrame(lastCall.msg.data)
           /\ \E p \in Payloads :
                /\ RoutedLcp.payload = encode(KSelf, p).val
                /\ NewNeighborhood =
                    <<[expired_cores_package |->
                            [remaining_route |-> RoutedLcp.route, payload |-> p],
                       sender_ip |-> lastCall.msg.peer_addr.ip]>>
           /\ NewNeighborhood[1].expired_cores_package = to_expired(RoutedLcp).val

C4_Witness ==
    /\ lastCall.op = "route"
    /\ lastCall.msg.peer_addr = SocketAddr("5.6.7.8", 1234)
    /\ Len(NewNeighborhood) = 1
    /\ NewNeighborhood[1].sender_ip = "5.6.7.8"
    /\ NewNeighborhood[1].expired_cores_package.payload = Raw("abcd")

\* C5: on a node that is no bootstrap node, route on a valid frame whose next hop
\* carries Hopper sends exactly one TransmitDataMsg to the dispatcher and nothing
\* to an internal sink; its endpoint is the key to_next_live returns, its
\* last_data is the frame's, and its data is the next live package, serialized
\* and encoded under that key.
C5_Relay ==
    \A k \in Keys :
        (~is_bootstrap_node /\ RoutedTo(k, "Hopper"))
            => /\ Len(NewDispatcher) = 1
               /\ NewProxyServer = <<>>
               /\ NewProxyClient = <<>>
               /\ NewNeighborhood = <<>>
               /\ NewHopper = <<>>
               /\ \E g \in GarbageHops :
                    LET next == to_next_live(RoutedLcp, g).val
                    IN  /\ next.key = k
                        /\ next.lcp = LiveCoresPackage(Tail(RoutedLcp.route) \o <<g>>,
                                                       RoutedLcp.payload)
                        /\ NewDispatcher[1].endpoint = [tag |-> "Key", key |-> next.key]
                        /\ NewDispatcher[1].last_data = lastCall.msg.last_data
                        /\ NewDispatcher[1].data =
                               encode(next.key, to_vec(next.lcp).val).val

C5_Witness ==
    /\ ~is_bootstrap_node
    /\ RoutedTo(KNext, "Hopper")
    /\ lastCall.msg.last_data
    /\ Len(to_dispatcher) = 1
    /\ to_dispatcher[1].last_data
    /\ to_dispatcher[1].endpoint = [tag |-> "Key", key |-> KNext]

\* ConsumingService.consume has just handled a package whose first hop names
\* next_key.
ConsumedTo(next_key) ==
    /\ lastCall.op = "consume"
    /\ \E c \in Components :
        Head(lastCall.msg.route) = EncryptedHop(KSelf, Hop(next_key, c))

\* C6: consume on a package whose first hop names another node's key sends
\* exactly one TransmitDataMsg to the dispatcher, for that key, with last_data
\* false, no sequence number, and as data the live package made from the
\* incipient one, serialized and encoded under that key; nothing goes to the
\* hopper.
C6_Conventional ==
    \A k \in Keys \ {KSelf} :
        ConsumedTo(k)
            => /\ NewHopper = <<>>
               /\ NewProxyServer = <<>>
               /\ NewProxyClient = <<>>
               /\ NewNeighborhood = <<>>
               /\ \E g \in GarbageHops :
                    LET icp == lastCall.msg
                        live == LiveCoresPackage(
                                    Tail(icp.route) \o <<g>>,
                                    encode(icp.payload_destination_key, icp.payload).val)
                    IN  /\ live = from_incipient(icp, g).val.lcp
                        /\ NewDispatcher =
                            <<[endpoint |-> [tag |-> "Key", key |-> k],
                               last_data |-> FALSE,
                               data |-> encode(k, to_vec(live).val).val,
                               sequence_number |-> None]>>

C6_Witness ==
    /\ ConsumedTo(KNext)
    /\ Len(to_dispatcher) = 1
    /\ to_dispatcher[1].endpoint = [tag |-> "Key", key |-> KNext]
    /\ mailbox = <<>>

\* C7: consume on a package whose first hop names this node's own key hands
\* exactly one InboundClientData to the hopper: clandestine, not last data, no
\* sequence number, no reception port, from 1.2.3.4:5678, and as data the live
\* package, serialized and encoded under this node's key; nothing goes to the
\* dispatcher.
C7_ZeroHop ==
    ConsumedTo(KSelf)
        => /\ NewDispatcher = <<>>
           /\ NewProxyServer = <<>>
           /\ NewProxyClient = <<>>
           /\ NewNeighborhood = <<>>
           /\ \E g \in GarbageHops :
                NewHopper =
                    <<[peer_addr |-> SocketAddr("1.2.3.4", 5678),
                       reception_port |-> None,
                       last_data |-> FALSE,
                       sequence_number |-> None,
                       is_clandestine |-> TRUE,
                       data |-> encode(KSelf,
                                   to_vec(from_incipient(lastCall.msg, g).val.lcp).val).val]>>

C7_Witness ==
    /\ ConsumedTo(KSelf)
    /\ Len(mailbox) = 1
    /\ mailbox[1].kind = "InboundClientData"
    /\ mailbox[1].body.is_clandestine
    /\ mailbox[1].body.peer_addr = SocketAddr("1.2.3.4", 5678)
    /\ to_dispatcher = <<>>

\* RoutingService.route has just handled bytes this node's engine cannot decode.
RoutedUndecryptable ==
    /\ lastCall.op = "route"
    /\ ~(lastCall.msg.data.tag = "enc" /\ lastCall.msg.data.key = KSelf)

\* RoutingService.route has just handled bytes that decode to something that is
\* no serialized LiveCoresPackage.
RoutedUndeserializable ==
    /\ lastCall.op = "route"
    /\ lastCall.msg.data.tag = "enc"
    /\ lastCall.msg.data.key = KSelf
    /\ ~(lastCall.msg.data.plain.tag = "cbor"
         /\ lastCall.msg.data.plain.type = "LiveCoresPackage")

IsErrorLine(line, text) ==
    /\ line.level = "ERROR"
    /\ line.logger = "RoutingService"
    /\ line.text = text

\* C9: when the frame cannot be decrypted, route logs the one ERROR line
\* "Couldn't decrypt CORES package: <detail>" (none about deserialization, none
\* about a bootstrap rejection), sends nothing to any sink, and returns: the
\* Hopper has not panicked and goes on to handle the message that waits next.
C9_DecryptFailure ==
    RoutedUndecryptable
        => /\ Len(NewLog) = 1
           /\ IsErrorLine(NewLog[1], "Couldn't decrypt CORES package: {:?}")
           /\ NoSinkReceived
           /\ lastCall.eff.panic = None
           /\ ~panicked
           /\ mailbox # <<>> => ENABLED (HandleIncipient \/ HandleInbound)

C9_Witness ==
    /\ RoutedUndecryptable
    /\ Len(log) = 1
    /\ mailbox # <<>>
    /\ Head(mailbox).kind = "InboundClientData"
    /\ ENABLED HandleInbound

\* C10: when the decrypted bytes are no LiveCoresPackage, route logs the one
\* ERROR line "Couldn't deserialize CORES package: <detail>" (none about a
\* bootstrap rejection), sends nothing to any sink, and returns.
C10_DeserializeFailure ==
    RoutedUndeserializable
        => /\ Len(NewLog) = 1
           /\ IsErrorLine(NewLog[1], "Couldn't deserialize CORES package: {}")
           /\ NoSinkReceived
           /\ lastCall.eff.panic = None
           /\ ~panicked

C10_Witness ==
    /\ RoutedUndeserializable
    /\ is_bootstrap_node
    /\ lastCall.msg.data.plain = Raw("abcd")
    /\ Len(log) = 1
    /\ log[1].text = "Couldn't deserialize CORES package: {}"

\* The sink of component holds an ExpiredCoresPackage whose payload is p.
DeliveredTo(component, p) ==
    CASE component = "ProxyServer" ->
            \E i \in 1..Len(to_proxy_server) : to_proxy_server[i].payload = p
      [] component = "ProxyClient" ->
            \E i \in 1..Len(to_proxy_client) : to_proxy_client[i].payload = p
      [] component = "Neighborhood" ->
            \E i \in 1..Len(to_neighborhood) :
                to_neighborhood[i].expired_cores_package.payload = p
      [] OTHER -> FALSE

\* C8: zero-hop equivalence through the Hopper: on a bound node that is no
\* bootstrap node, once a package whose first hop names this node has been
\* consumed and its looped-back InboundClientData routed, the component its
\* route ends at holds an ExpiredCoresPackage with the payload the originator
\* supplied, and nothing was sent to the dispatcher.
C8_ZeroHopEquivalence ==
    (~is_bootstrap_node /\ lastCall.op = "route")
        => /\ to_dispatcher = <<>>
           /\ \E c \in Components, p \in Payloads :
                /\ RoutedTo(KSelf, c)
                /\ RoutedLcp.payload = encode(KSelf, p).val
                /\ DeliveredTo(c, p)

\* ConsumingService.consume has just handled a package that cannot be encoded
\* for its next node: its first hop names the empty key.
ConsumedUnencodable ==
    /\ lastCall.op = "consume"
    /\ \E c \in Components :
        Head(lastCall.msg.route) = EncryptedHop(KSelf, Hop(EmptyKey, c))

\* C11: when the live package cannot be serialized or encrypted, consume logs
\* the failure as one ERROR line of the ConsumingService, sends nothing to the
\* dispatcher, the hopper or any other sink, so that nothing brings the package
\* back to the Hopper, and returns without a panic.
C11_ConsumeFailure ==
    ConsumedUnencodable
        => /\ Len(NewLog) = 1
           /\ NewLog[1].level = "ERROR"
           /\ NewLog[1].logger = "ConsumingService"
           /\ NewLog[1].text \in {"Couldn't serialize package: {}",
                                  "Couldn't encode package: {:?}"}
           /\ NoSinkReceived
           /\ lastCall.eff.sends = <<>>
           /\ lastCall.eff.panic = None
           /\ ~panicked

C11_Witness ==
    /\ ConsumedUnencodable
    /\ Len(log) = 1
    /\ log[1].text = "Couldn't encode package: {:?}"
    /\ log[1].arg = "EmptyKey"
    /\ to_dispatcher = <<>>
    /\ mailbox = <<>>

\* C12: when the next hop of a valid frame carries a component other than Hopper,
\* ProxyServer, ProxyClient or Neighborhood, route logs and drops the message:
\* no sink receives anything and the Hopper has not panicked, so that the frames
\* that follow are still handled.
C12_OtherComponentDropped ==
    \A k \in Keys :
        RoutedTo(k, "Reserved")
            => /\ NoSinkReceived
               /\ NewLog # <<>>
               /\ lastCall.eff.panic = None
               /\ ~panicked

\* C13: on a bootstrap node consume is a logged no-op: no TransmitDataMsg goes
\* to the dispatcher and no InboundClientData to the hopper.
C13_BootstrapDoesNotOriginate ==
    (is_bootstrap_node /\ lastCall.op = "consume")
        => /\ NewDispatcher = <<>>
           /\ NewHopper = <<>>
           /\ lastCall.eff.panic = None

\* C19: the TransmitDataMsg that route sends for a relayed frame carries the
\* sequence_number of the InboundClientData it came in.
C19_SequenceNumberPlumbed ==
    \A k \in Keys :
        (RoutedTo(k, "Hopper") /\ NewDispatcher # <<>>)
            => NewDispatcher[1].sequence_number = lastCall.msg.sequence_number

\* The sink that handling the last message had to send to, and the name the
\* code gives it.
RequiredSink ==
    CASE ConsumedTo(KSelf) -> [sink |-> "hopper", who |-> "Hopper"]
      [] ConsumedTo(KNext) -> [sink |-> "dispatcher", who |-> "Dispatcher"]
      [] ~is_bootstrap_node /\ \E k \in Keys : RoutedTo(k, "Hopper") ->
            [sink |-> "dispatcher", who |-> "Dispatcher"]
      [] ~is_bootstrap_node /\ \E k \in Keys : RoutedTo(k, "ProxyServer") ->
            [sink |-> "proxy_server", who |-> "ProxyServer"]
      [] ~is_bootstrap_node /\ \E k \in Keys : RoutedTo(k, "ProxyClient") ->
            [sink |-> "proxy_client", who |-> "ProxyClient"]
      [] \E k \in Keys : RoutedTo(k, "Neighborhood") ->
            [sink |-> "neighborhood", who |-> "Neighborhood"]
      [] OTHER -> [sink |-> "none", who |-> "none"]

\* Handling the last message had to send to a sink that was dead by then.
SendFailed ==
    /\ lastCall.op \in {"consume", "route"}
    /\ RequiredSink.sink \in lastCall.before.dead

\* C18: when the send that consume or route has to make fails, the call ends in
\* the panic "<sink> is dead": the message reaches no sink, is not handed to
\* the Hopper again, and the Hopper handles nothing after it.
C18_DeadSinkIsFatal ==
    SendFailed
        => /\ lastCall.eff.panic = Some([msg |-> "is dead", arg |-> RequiredSink.who])
           /\ panicked
           /\ lastCall.eff.sends = <<>>
           /\ NoSinkReceived
           /\ ~ENABLED (HandleIncipient \/ HandleInbound)

C18_Witness ==
    /\ SendFailed
    /\ RequiredSink.sink = "proxy_client"
    /\ lastCall.eff.panic = Some([msg |-> "is dead", arg |-> "ProxyClient"])
    /\ to_proxy_client = <<>>
    /\ panicked

\* What handling message m can do, on a bound Hopper.
Outcomes(m) ==
    CASE m.kind = "IncipientCoresPackage" -> {consume(m.body, g) : g \in GarbageHops}
      [] m.kind = "InboundClientData" -> {route(m.body, g) : g \in GarbageHops}
      [] OTHER -> {Return}

\* A message arrives: it is put behind the messages that wait, and no sink and
\* no log changes.
Arrives ==
    /\ Len(mailbox') = Len(mailbox) + 1
    /\ SubSeq(mailbox', 1, Len(mailbox)) = mailbox
    /\ UNCHANGED <<to_proxy_server, to_proxy_client, to_neighborhood, to_dispatcher, log>>

\* The message that waited longest is handled, whole: all it sends is put
\* behind what the sinks hold, and the messages behind it wait on in their order.
HeadHandled ==
    /\ mailbox # <<>>
    /\ \E e \in Outcomes(Head(mailbox)) :
        /\ SubSeq(mailbox', 1, Len(mailbox) - 1) = Tail(mailbox)
        /\ Len(mailbox') = Len(mailbox) - 1 + Len(SentTo(e.sends, "hopper"))
        /\ to_proxy_server' = to_proxy_server \o SentTo(e.sends, "proxy_server")
        /\ to_proxy_client' = to_proxy_client \o SentTo(e.sends, "proxy_client")
        /\ to_neighborhood' = to_neighborhood \o SentTo(e.sends, "neighborhood")
        /\ to_dispatcher' = to_dispatcher \o SentTo(e.sends, "dispatcher")
        /\ log' = log \o e.logs

\* C17: the Hopper handles its messages one at a time in the order they came:
\* every step either puts a new message behind the waiting ones or handles the
\* one that came first, and what that one sends reaches each sink after all
\* that the messages before it sent, so a sink receives the output of m1 before
\* the output of m2 whenever m1 came before m2.
C17_ArrivalOrder == [][Arrives \/ HeadHandled]_vars

C17_Witness ==
    /\ ~is_bootstrap_node
    /\ Len(to_proxy_server) = 2
    /\ to_proxy_server[1].payload = Raw("abcd")
    /\ to_proxy_server[2].payload = Raw("wxyz")
    /\ mailbox = <<>>
    /\ ~panicked

\* The try_unmask calls of the take_chunk that ran last, in order.
TakeCalls == SelectSeq(observed.calls, LAMBDA c : c.take = observed.takes)

\* The last take_chunk found a frame in the framer.
TookFrame ==
    /\ construction = "built"
    /\ observed.takes > 0
    /\ observed.frame # None

\* Masqueraders 1..k asked once each about frame, in registration order, by
\* take_chunk number n.
AskedInOrder(n, k, frame) ==
    [i \in 1..k |-> [take |-> n, masquerader |-> i, frame |-> frame]]

\* C14: when take_chunk finds a frame and, in registration order, masqueraders
\* 1..k-1 unmask nothing from it and masquerader k unmasks x, take_chunk returns
\* Some(x), has asked each of masqueraders 1..k exactly once about that frame,
\* and has asked no masquerader after the k-th.
C14_FirstMatch ==
    TookFrame
        => \A k \in 1..Len(discriminator.masqueraders) :
            LET ms == discriminator.masqueraders
                frame == observed.frame.val
            IN  (/\ \A i \in 1..(k - 1) : ms[i][frame.bytes] = None
                 /\ ms[k][frame.bytes] # None)
                    => /\ observed.result = ms[k][frame.bytes]
                       /\ TakeCalls = AskedInOrder(observed.takes, k, frame)

C14_Witness ==
    /\ TookFrame
    /\ Len(discriminator.masqueraders) = 2
    /\ discriminator.masqueraders[1][observed.frame.val.bytes] # None
    /\ discriminator.masqueraders[2][observed.frame.val.bytes] # None
    /\ observed.result = Some(UnmaskedChunk("ProxyServer", "don't choose me"))
    /\ Len(TakeCalls) = 1

\* Every masquerader of the discriminator unmasks nothing from the frame.
AllRefuse(frame) ==
    \A i \in 1..Len(discriminator.masqueraders) :
        discriminator.masqueraders[i][frame.bytes] = None

\* C15: when take_chunk finds a frame from which no masquerader unmasks
\* anything, it returns None after asking every masquerader exactly once about
\* it, and the frame is gone: it is not in the framer, and no other take_chunk,
\* before or after, asks a masquerader about it.
C15_AllRefuse ==
    /\ (TookFrame /\ AllRefuse(observed.frame.val))
        => /\ observed.result = None
           /\ TakeCalls = AskedInOrder(observed.takes,
                                       Len(discriminator.masqueraders),
                                       observed.frame.val)
    /\ construction = "built"
        => \A j \in 1..Len(observed.calls) :
            LET frame == observed.calls[j].frame
            IN  AllRefuse(frame)
                    => /\ \A l \in 1..Len(discriminator.framer) :
                            discriminator.framer[l] # frame
                       /\ \A l \in 1..Len(observed.calls) :
                            observed.calls[l].frame = frame
                                => observed.calls[l].take = observed.calls[j].take
                       /\ Cardinality({l \in 1..Len(observed.calls) :
                                            observed.calls[l].frame = frame})
                            = Len(discriminator.masqueraders)

C15_Witness ==
    /\ construction = "built"
    /\ Len(discriminator.masqueraders) = 2
    /\ observed.takes = 2
    /\ Len(observed.calls) = 4
    /\ observed.calls[1].take = 1
    /\ observed.calls[2].take = 1
    /\ AllRefuse(observed.calls[1].frame)
    /\ observed.result = None
    /\ observed.calls[3].take = 2
    /\ observed.calls[4].take = 2
    /\ observed.calls[3].frame # observed.calls[1].frame
    /\ observed.calls[3].frame.bytes = observed.calls[1].frame.bytes

\* C16: Discriminator::new with no masquerader panics with "Discriminator must
\* be given at least one Masquerader" and leaves no discriminator behind, so a
\* discriminator that exists holds at least one masquerader, at every moment of
\* its life.
C16_AtLeastOneMasquerader ==
    /\ discriminator # None
        => /\ construction = "built"
           /\ Len(discriminator.masqueraders) >= 1
    /\ discriminator = None
        => construction \in {"none", "Discriminator must be given at least one Masquerader"}

C16_Witness ==
    /\ construction = "Discriminator must be given at least one Masquerader"
    /\ discriminator = None
    /\ observed.takes = 0

C24_BootstrapRefusesHopper ==
    \A k \in Keys :
        (is_bootstrap_node /\ RoutedTo(k, "Hopper"))
            => /\ NewDispatcher = <<>>
               /\ lastCall.eff.sends = <<>>
               /\ NoSinkReceived
               /\ NewLog = <<RejectionLine("Hopper")>>
               /\ lastCall.eff.panic = None

\* The statement of C24 as the specification has it: on a bootstrap node a
\* frame whose next hop carries Hopper is relayed to the dispatcher.
C24_BootstrapRelaysHopper ==
    \A k \in Keys :
        (is_bootstrap_node /\ RoutedTo(k, "Hopper"))
            => /\ Len(NewDispatcher) = 1
               /\ NewDispatcher[1].endpoint = [tag |-> "Key", key |-> k]

C24_Witness ==
    /\ is_bootstrap_node
    /\ RoutedTo(KNext, "Hopper")
    /\ RoutedLcp.route[2] = EncryptedHop(KNext, Hop(KNext, "ProxyClient"))
    /\ lastCall.eff.sends = <<>>
    /\ log = <<RejectionLine("Hopper")>>

RoutedUnrelayable ==
    /\ lastCall.op = "route"
    /\ IsFrame(lastCall.msg.data)
    /\ Head(FrameLcp(lastCall.msg.data).route) =
            EncryptedHop(KSelf, Hop(EmptyKey, "Hopper"))

\* C26: on a node that is no bootstrap node, when the package of a relayed frame
\* cannot be made ready for the next node, route ends in the panic "not yet
\* implemented": nothing is logged, no TransmitDataMsg and no other message is
\* sent, and the Hopper handles none of the frames that wait behind it.
C26_RelayFailureAborts ==
    (~is_bootstrap_node /\ RoutedUnrelayable)
        => /\ lastCall.eff.panic = Some([msg |-> "not yet implemented", arg |-> "EmptyKey"])
           /\ panicked
           /\ NewLog = <<>>
           /\ NewDispatcher = <<>>
           /\ NoSinkReceived
           /\ lastCall.eff.sends = <<>>
           /\ ~ENABLED (HandleIncipient \/ HandleInbound)

C26_Witness ==
    /\ ~is_bootstrap_node
    /\ RoutedUnrelayable
    /\ panicked
    /\ Len(mailbox) = 1
    /\ mailbox[1].kind = "InboundClientData"
    /\ to_dispatcher = <<>>
    /\ log = <<>>

\* C29: a call of route or consume sends at most one message, all sinks taken
\* together.
C29_AtMostOneSend ==
    lastCall.op \in {"route", "consume"}
        => /\ Len(lastCall.eff.sends) <= 1
           /\ Len(NewProxyServer) + Len(NewProxyClient) + Len(NewNeighborhood)
                + Len(NewDispatcher) + Len(NewHopper) <= 1

C29_Witness ==
    /\ lastCall.op = "consume"
    /\ Len(lastCall.eff.sends) = 1
    /\ lastCall.eff.sends[1].sink = "hopper"
    /\ lastCall.msg.payload_destination_key = KSelf
    /\ NewDispatcher = <<>>

\* C30: on a bootstrap node the proxy-server sink and the proxy-client sink
\* never receive a message, whatever packages and frames the Hopper has
\* handled, its own looped-back zero-hop packages among them.
C30_BootstrapProxiesSilent ==
    is_bootstrap_node
        => /\ to_proxy_server = <<>>
           /\ to_proxy_client = <<>>

C30_Witness ==
    /\ is_bootstrap_node
    /\ sent = 2
    /\ lastCall.op = "route"
    /\ lastCall.msg.is_clandestine
    /\ RoutedTo(KSelf, "ProxyClient")
    /\ lastCall.eff.logs = <<RejectionLine("ProxyClient")>>
    /\ Len(log) = 2
    /\ to_proxy_client = <<>>
    /\ to_proxy_server = <<>>

\* A step that is a call of take_chunk, and one that is a call of add_data.
TakeChunkStep == observed'.takes # observed.takes

AddDataStep == observed'.added # observed.added

\* C27: a take_chunk that finds no frame in the framer returns None and asks no
\* masquerader; an add_data puts its bytes last in the framer and does nothing
\* else: no masquerader is asked and no frame leaves the framer.
C27_NoFrameNoCall ==
    [][/\ (TakeChunkStep /\ discriminator.framer = <<>>)
            => /\ observed'.result = None
               /\ observed'.frame = None
               /\ observed'.calls = observed.calls
               /\ discriminator' = discriminator
       /\ AddDataStep
            => /\ observed'.calls = observed.calls
               /\ observed'.takes = observed.takes
               /\ observed'.result = observed.result
               /\ Len(discriminator'.framer) = Len(discriminator.framer) + 1
               /\ SubSeq(discriminator'.framer, 1, Len(discriminator.framer))
                    = discriminator.framer
               /\ discriminator'.masqueraders = discriminator.masqueraders]_vars

C27_Witness ==
    /\ construction = "built"
    /\ observed.takes = 1
    /\ observed.frame = None
    /\ observed.result = None
    /\ observed.calls = <<>>
    /\ observed.added = 1
    /\ Len(discriminator.framer) = 1
    /\ discriminator.masqueraders[1]["booga"] # None

\* The number of frames that have left the framer.
FramesTaken == observed.added - Len(discriminator.framer)

\* Frames leave the framer in the order they came, one for a take_chunk at
\* most, and each frame that has left was shown to the masqueraders by one
\* take_chunk, the takes in the order of the frames.
FramesPresentedInOrder ==
    construction = "built"
        => /\ FramesTaken <= observed.takes
           /\ \A i \in 1..Len(discriminator.framer) :
                discriminator.framer[i].id = FramesTaken + i
           /\ \A n \in 1..FramesTaken :
                \E j \in 1..Len(observed.calls) :
                    /\ observed.calls[j].frame.id = n
                    /\ observed.calls[j].masquerader = 1
           /\ \A j \in 1..Len(observed.calls) :
                observed.calls[j].frame.id \in 1..FramesTaken
           /\ \A j, l \in 1..Len(observed.calls) :
                /\ j < l => observed.calls[j].frame.id <= observed.calls[l].frame.id
                /\ (observed.calls[j].frame.id = observed.calls[l].frame.id)
                        <=> (observed.calls[j].take = observed.calls[l].take)

\* A take_chunk removes the framer's first frame and no other, and what it
\* returns is what a masquerader unmasks from that frame, or None.
TakesTheFirstFrame ==
    (TakeChunkStep /\ discriminator.framer # <<>>)
        => /\ discriminator'.framer = Tail(discriminator.framer)
           /\ observed'.frame = Some(Head(discriminator.framer))
           /\ \/ observed'.result = None
              \/ \E i \in 1..Len(discriminator.masqueraders) :
                    observed'.result =
                        discriminator.masqueraders[i][Head(discriminator.framer).bytes]

\* C28: each take_chunk removes at most one frame, the first the framer holds,
\* and over any sequence of add_data and take_chunk calls the frames are shown
\* to the masqueraders in the order they were added: none by two take_chunk
\* calls, and none leaves the framer without having been shown.
C28_FramesInOrder == []FramesPresentedInOrder /\ [][TakesTheFirstFrame]_vars

C28_Witness ==
    /\ construction = "built"
    /\ Len(discriminator.masqueraders) = 1
    /\ observed.added = 2
    /\ observed.takes = 2
    /\ discriminator.framer = <<>>
    /\ Len(observed.calls) = 2
    /\ observed.calls[1] = [take |-> 1, masquerader |-> 1,
                            frame |-> [id |-> 1, bytes |-> "wooga"]]
    /\ observed.calls[2] = [take |-> 2, masquerader |-> 1,
                            frame |-> [id |-> 2, bytes |-> "booga"]]
    /\ observed.result = Some(UnmaskedChunk("ProxyServer", "don't choose me"))

\* A route built from one segment is on its way.
OneSegment == shifting # None /\ Len(shifting.segs) = 1

\* C21: for a route built from one segment with keys [k0..kn] and component c,
\* shifting at the peers in turn reveals at k_i, for every i < n, the hop
\* {k_(i+1), Hopper}, and at k_n the hop {k_n, c}; the route has n+1 hops, the
\* hop at position i is decoded by the engine of k_i and by no other, and after
\* k_n no peer decodes anything.
C21_OnionRoundTrip ==
    OneSegment
        => LET keys == shifting.segs[1].keys
               c == shifting.segs[1].component
               n == Len(keys) - 1
           IN  /\ Len(shifting.original) = n + 1
               /\ Len(shifting.revealed) = shifting.shifts
               /\ shifting.shifts <= n + 1
               /\ \A j \in 1..Len(shifting.revealed) :
                    /\ shifting.revealed[j].peer = keys[j]
                    /\ shifting.revealed[j].hop =
                            IF j <= n THEN Hop(keys[j + 1], "Hopper")
                            ELSE Hop(keys[n + 1], c)
               /\ \A j \in 1..(n + 1), k \in ShiftKeys :
                    decode(k, shifting.original[j]).ok <=> k = keys[j]
               /\ \A k \in ShiftKeys, g \in GarbageHops :
                    RouteShift(shifting.route, k, g).ok
                        <=> (shifting.shifts <= n /\ k = keys[shifting.shifts + 1])

\* The statement of C21 as the specification has it: the peers are k0..k(n-1),
\* and k_(n-1) is shown the hop {k_n, c}.
C21_TerminalAtLastButOne ==
    OneSegment
        => LET keys == shifting.segs[1].keys
               c == shifting.segs[1].component
               n == Len(keys) - 1
           IN  \A j \in 1..Len(shifting.revealed) :
                    j <= n
                        => /\ shifting.revealed[j].peer = keys[j]
                           /\ shifting.revealed[j].hop =
                                IF j < n THEN Hop(keys[j + 1], "Hopper")
                                ELSE Hop(keys[n + 1], c)

C21_Witness ==
    /\ OneSegment
    /\ shifting.segs[1] = RouteSegment(<<KSelf, KNext, KFar>>, "ProxyServer")
    /\ shifting.revealed = <<[peer |-> KSelf, hop |-> Hop(KNext, "Hopper")],
                             [peer |-> KNext, hop |-> Hop(KFar, "Hopper")],
                             [peer |-> KFar, hop |-> Hop(KFar, "ProxyServer")]>>
    /\ shifting.route[1].tag = "garbage"

\* The result of the stream.write made last by the write_with_retry of a reader.
LastWrite(r) == r.writes[Len(r.writes)].result

Transient(result) == ~result.ok /\ ~indicates_dead_stream(result.err)

\* C22: write_with_retry writes the same buffer to the same stream again after
\* every transient error, and only then; on a dead-stream error it prints the
\* error, shuts the stream down and returns false, writing no more; and it
\* returns true only when the write made last succeeded.
C22_WriteWithRetry ==
    \A p \in PeerAddrs :
        LET r == readers[p]
        IN  r.writes # <<>>
                => /\ \A i \in 1..Len(r.writes) :
                        /\ r.writes[i].buf = r.buf.val
                        /\ r.writes[i].stream = "control"
                   /\ \A i \in 1..(Len(r.writes) - 1) : Transient(r.writes[i].result)
                   /\ Transient(LastWrite(r))
                        => /\ r.returned = None
                           /\ r.pc = "write"
                           /\ ENABLED Write(p)
                   /\ (~LastWrite(r).ok /\ indicates_dead_stream(LastWrite(r).err))
                        => /\ r.returned = Some(FALSE)
                           /\ control_stream.shutdown
                           /\ r.pc = "done"
                           /\ BagIn([text |-> "Write error to {}: {}", peer |-> p,
                                     arg |-> LastWrite(r).err], stderr)
                           /\ ~ENABLED Write(p)
                   /\ (r.returned = Some(TRUE)) <=> LastWrite(r).ok

C22_Witness ==
    \E p \in PeerAddrs :
        /\ Len(readers[p].writes) = 3
        /\ Transient(readers[p].writes[1].result)
        /\ Transient(readers[p].writes[2].result)
        /\ readers[p].writes[3].result = Ok(2)
        /\ readers[p].returned = Some(TRUE)
        /\ control_stream.written = readers[p].buf.val
        /\ ~control_stream.shutdown

\* A step in which listener.accept() returned in the thread of port.
Accepted(port) == listener'[port].results # listener[port].results

AcceptErrorLine(port, result) ==
    [text |-> "Error accepting stream on port {}; continuing: {}",
     peer |-> port, arg |-> result.err]

\* An accept error is printed and changes nothing else; the stream of an accept
\* that succeeded is in the table under its peer's address, and a reader has
\* been started for it; either way the thread is back at accept.
AcceptHandled ==
    \A port \in Ports :
        Accepted(port)
            => LET result == listener'[port].results[Len(listener'[port].results)]
               IN  /\ listener'[port].pc = "accept"
                   /\ ~result.ok
                        => /\ stderr' = stderr (+) SetToBag({AcceptErrorLine(port, result)})
                           /\ UNCHANGED <<write_streams, readers, streams>>
                   /\ result.ok
                        => /\ result.val.peer_addr \in DOMAIN write_streams'
                           /\ write_streams'[result.val.peer_addr] = result.val.stream
                           /\ result.val.stream.peer = result.val.peer_addr
                           /\ \A q \in DOMAIN write_streams : write_streams'[q] = write_streams[q]
                           /\ readers[result.val.peer_addr].pc = "none"
                           /\ readers'[result.val.peer_addr].pc = "read"
                           /\ stderr' = stderr

\* The thread of every port is at accept, with as many error lines printed as
\* accepts have failed, and can accept every peer that has not connected yet.
ListenerAlive ==
    \A port \in Ports :
        /\ listener[port].pc = "accept"
        /\ \A k \in ErrorKinds \cup {"ConnectionAborted"} :
            CopiesIn(AcceptErrorLine(port, Err(k)), stderr)
                = Len(SelectSeq(listener[port].results, LAMBDA r : r = Err(k)))
        /\ (\E q \in PeerAddrs : streams[q] = "none") => ENABLED Accept(port)

\* C23: an accept error is printed and leaves the listener thread in its loop:
\* after any number of accept errors the thread is at accept, and the next
\* accept that succeeds puts the stream in the table of write streams under its
\* peer's address and starts a reader for it.
C23_ListenerSurvivesAcceptErrors == []ListenerAlive /\ [][AcceptHandled]_vars

C23_Witness ==
    \E port \in Ports, p \in PeerAddrs :
        /\ listener[port].results =
                <<Err("ConnectionAborted"), Err("ConnectionAborted"),
                  Ok([stream |-> StreamOf(p), peer_addr |-> p])>>
        /\ listener[port].pc = "accept"
        /\ DOMAIN write_streams = {p}
        /\ write_streams[p] = StreamOf(p)
        /\ readers[p].pc = "read"
        /\ readers[p].reads = 0


\* The InboundClientData that differ from ibcd in is_clandestine, reception_port
\* and the port of peer_addr at most.
Variants(ibcd) ==
    {[ibcd EXCEPT !.is_clandestine = c, !.reception_port = rp,
                  !.peer_addr = SocketAddr(IpOf(ibcd.peer_addr), port)] :
        c \in BOOLEAN, rp \in {None, Some(ReceptionPort)},
        port \in {a.port : a \in PeerAddrs} \cup {OtherPort}}

\* C31: what route does with an InboundClientData (the messages sent, the lines
\* logged, the panic) is what it does with any InboundClientData that differs
\* from it only in is_clandestine, reception_port or the port of peer_addr.
C31_RouteIgnoresPortAndClandestine ==
    lastCall.op = "route"
        => \A v \in Variants(lastCall.msg) :
                \E garbage \in GarbageHops : route(v, garbage) = lastCall.eff

C31_Witness ==
    /\ lastCall.op = "route"
    /\ lastCall.msg.peer_addr = SocketAddr("1.2.3.4", OtherPort)
    /\ lastCall.msg.reception_port = Some(ReceptionPort)
    /\ ~lastCall.msg.is_clandestine
    /\ Len(to_neighborhood) = 1
    /\ to_neighborhood[1].sender_ip = "1.2.3.4"
    /\ \E v \in Variants(lastCall.msg) :
            /\ v \in InboundClientDatas
            /\ v.is_clandestine
            /\ v.reception_port = None
            /\ v.peer_addr.port # OtherPort


\* A step in which the Hopper handled a message.
HopperHandled == lastCall' # lastCall

\* C32: handling a message leaves is_bootstrap_node and the binding of the sinks
\* as they were, and leaves what route does with every frame and what consume
\* does with every package as it was: the sink chosen, the content sent and the
\* drop of a frame do not depend on the messages handled before it.  (The
\* random hop a relay appends is an input of both sides, and the same on both.)
C32_StatelessPerMessage ==
    [][HopperHandled
        => /\ is_bootstrap_node' = is_bootstrap_node
           /\ bound => bound'
           /\ \A ibcd \in RepeatInboundClientDatas :
                route(ibcd, Garbage(1))' = route(ibcd, Garbage(1))
           /\ \A icp \in RepeatIncipientPackages :
                consume(icp, Garbage(1))' = consume(icp, Garbage(1))]_vars

C32_Witness ==
    /\ lastCall.op = "route"
    /\ Len(to_dispatcher) = 2
    /\ to_dispatcher[1] = to_dispatcher[2]
    /\ to_dispatcher[2].endpoint = [tag |-> "Key", key |-> KNext]
    /\ lastCall.before.dispatcher = 1
    /\ log = <<>>


\* A read of the reader of peer_addr has returned 0 bytes.
ReadZero(peer_addr) ==
    BagIn([text |-> "{} shut down stream", peer |-> peer_addr, arg |-> "none"], stderr)

\* A read of the reader of peer_addr has failed with the error of a dead stream.
ReadDead(peer_addr) ==
    \E kind \in {k \in ErrorKinds : indicates_dead_stream(k)} :
        BagIn([text |-> "Read error from {}: {}", peer |-> peer_addr, arg |-> kind],
              stderr)

InControlWrite(peer_addr) == readers[peer_addr].pc = "write"

\* C34: a reader that is inside write_with_retry on the control stream holds
\* the control stream's mutex, from before its first stream.write until
\* write_with_retry returns, retries included; so no two readers are inside a
\* write to the control stream at the same time.
C34_ControlWritesExclusive ==
    /\ \A peer_addr \in PeerAddrs :
            InControlWrite(peer_addr) => control_stream.lock = Some(peer_addr)
    /\ \A p, q \in PeerAddrs : InControlWrite(p) /\ InControlWrite(q) => p = q
    /\ \A peer_addr \in PeerAddrs :
            control_stream.lock = Some(peer_addr) => InControlWrite(peer_addr)

C34_Witness ==
    \E p, q \in PeerAddrs :
        /\ p # q
        /\ InControlWrite(p)
        /\ Len(readers[p].writes) = 2
        /\ readers[p].returned = None
        /\ control_stream.lock = Some(p)
        /\ readers[q].pc = "lock"
        /\ ~ENABLED LockControlStream(q)

\* The threads that take a mutex: the main thread and the readers by name (a
\* listener has write_streams only within one turn of its loop, and never
\* takes the control stream).
LockingThreads == {MainThread} \cup PeerAddrs

HoldsWriteStreams(thread) == write_streams_lock = Some(thread)

HoldsControlStream(thread) == control_stream.lock = Some(thread)

\* The thread is blocked in lock() on the mutex of the write streams.
AwaitsWriteStreams(thread) == thread = MainThread /\ main.pc = "lock"

\* The thread is blocked in lock() on the mutex of the control stream.
AwaitsControlStream(thread) ==
    \/ thread = MainThread /\ main.pc = "shutdown"
    \/ thread \in PeerAddrs /\ readers[thread].pc = "lock"

HunkNumber(data_hunk) == data_hunk.data[1]

\* The hunks the main thread has taken are the first hunks framed, in the order
\* of framing.
HandledInFramingOrder ==
    \A i \in 1..Len(main.handled) : HunkNumber(main.handled[i].hunk) = i

\* write_with_retry returned true for the i-th hunk taken.
WrittenByMain(i) == main.handled[i].result.ok

\* The i-th hunk taken was given up because connecting to its destination
\* failed, and the failure was printed.
DroppedByMain(i) ==
    /\ ~main.handled[i].result.ok
    /\ main.handled[i].result \in ConnectResults(main.handled[i].hunk.to)
    /\ BagIn([text |-> "Error connecting new stream from {} to {}, ignoring: {}",
              peer |-> main.handled[i].hunk.to,
              arg |-> main.handled[i].result.err], stderr)

\* The main thread is at the read of the control stream.
AtControlRead == main.pc = "read"

\* C36 as stated: when the main loop reads the control stream, every hunk
\* framed so far has been taken and written to the stream of its destination,
\* in the order of framing (and so in arrival order for each destination).
C36_AllFramesWrittenInOrder ==
    AtControlRead
        => /\ main.framer = <<>>
           /\ Len(main.handled) = main.framed
           /\ HandledInFramingOrder
           /\ \A i \in 1..Len(main.handled) : WrittenByMain(i)

\* C36, amended: when the main loop reads the control stream, every hunk
\* framed so far has been taken, in the order of framing, and either written
\* to the stream of its destination or, when connecting to the destination
\* failed, given up with a printed line; at any time the hunks taken are the
\* first framed, in order, so that two hunks for one destination are written
\* in arrival order.
C36_FramesHandledInOrder ==
    /\ HandledInFramingOrder
    /\ Len(main.handled) <= main.framed
    /\ \A i \in 1..Len(main.framer) :
            HunkNumber(main.framer[i])
                = main.framed - Len(main.framer) + i
    /\ AtControlRead
        => /\ main.framer = <<>>
           /\ Len(main.handled) = main.framed
           /\ \A i \in 1..Len(main.handled) : WrittenByMain(i) \/ DroppedByMain(i)

\* The main loop is back at the read of the control stream after a hunk was
\* given up for a failed connection and two later hunks were written to one
\* destination.
C36_Witness ==
    /\ AtControlRead
    /\ \E i, j, k \in 1..Len(main.handled) :
        /\ i < j /\ j < k
        /\ DroppedByMain(i)
        /\ WrittenByMain(j) /\ WrittenByMain(k)
        /\ main.handled[j].hunk.to = main.handled[k].hunk.to

\* C37: whenever write_with_retry has returned true to the main loop for a
\* hunk, the stream has taken every byte of the hunk's data.
C37_TrueMeansAllWritten ==
    \A i \in 1..Len(main.handled) :
        LET data_hunk == main.handled[i].hunk
            call == write_with_retry(data_hunk.data, data_hunk.to,
                                     main.handled[i].result)
        IN  call.returned = Some(TRUE) => call.written = data_hunk.data

\* The keys of the nodes added to the builder.
AddedKeys(builder) ==
    {builder.node_info[i].node_record_inner.public_key :
        i \in 1..Len(builder.node_info)}

\* The i-th node added is the first that was added with its key.
FirstOfItsKey(builder, i) ==
    \A j \in 1..(i - 1) :
        builder.node_info[j].node_record_inner.public_key
            # builder.node_info[i].node_record_inner.public_key

\* The to_keys of the connections added from from_key, in the order added.
ToKeysFrom(builder, from_key) ==
    LET pairs == SelectSeq(builder.connection_pairs, LAMBDA pair : pair[1] = from_key)
    IN  [k \in 1..Len(pairs) |-> pairs[k][2]]

\* The connections whose from_key was never added as a node.
Unfounded(builder) ==
    {k \in 1..Len(builder.connection_pairs) :
        builder.connection_pairs[k][1] \notin AddedKeys(builder)}

\* C38: build appends, for every pair (from, to) added with add_connection,
\* to to the neighbors of from's record, in the order the pairs were added;
\* no other record changes, to need not be a node; and build panics when a
\* from was never added as a node.
C38_BuildDirectedInOrder ==
    gossip # None =>
        LET builder == gossip_builder
            built == gossip.val
        IN  IF Unfounded(builder) # {}
            THEN /\ built.tag = "panic"
                 /\ \E k \in Unfounded(builder) :
                        /\ \A other \in Unfounded(builder) : k <= other
                        /\ built.args = <<builder.connection_pairs[k][2],
                                          builder.connection_pairs[k][1],
                                          builder.connection_pairs[k][1]>>
            ELSE /\ built.tag = "Gossip"
                 /\ Len(built.node_records) = Len(builder.node_info)
                 /\ \A i \in 1..Len(builder.node_info) :
                        LET added == builder.node_info[i].node_record_inner
                        IN  built.node_records[i].inner =
                                [added EXCEPT !.neighbors =
                                    IF FirstOfItsKey(builder, i)
                                    THEN @ \o ToKeysFrom(builder, added.public_key)
                                    ELSE @]

\* A Gossip built from two nodes and two connections from the first of them:
\* one to the second node, whose record stays as it was added, and then one to
\* a key that is no node.
C38_Witness ==
    /\ gossip # None
    /\ gossip.val.tag = "Gossip"
    /\ Len(gossip_builder.node_info) = 2
    /\ Len(gossip_builder.connection_pairs) = 2
    /\ LET from_key == gossip_builder.node_info[1].node_record_inner.public_key
           to_key == gossip_builder.node_info[2].node_record_inner.public_key
       IN  /\ from_key # to_key
           /\ gossip_builder.connection_pairs[1] = <<from_key, to_key>>
           /\ gossip_builder.connection_pairs[2][1] = from_key
           /\ gossip_builder.connection_pairs[2][2] \notin AddedKeys(gossip_builder)
           /\ gossip.val.node_records[1].inner.neighbors
                = <<to_key, gossip_builder.connection_pairs[2][2]>>
           /\ gossip.val.node_records[2].inner
                = gossip_builder.node_info[2].node_record_inner

\* C39: in the Gossip that build returns, the signatures of every record are
\* the signatures of the record's inner data as the Gossip has it, with the
\* neighbors that add_connection gave it.
C39_SignaturesOfInnerAsBuilt ==
    (gossip # None /\ gossip.val.tag = "Gossip") =>
        \A i \in 1..Len(gossip.val.node_records) :
            gossip.val.node_records[i].signatures
                = NodeSignatures_from(gossip_builder.node_info[i].cryptde,
                                      gossip.val.node_records[i].inner)

====
